---- MODULE Spec2Model ----
(***************************************************************************)
(* Motor calibration subsystem of the joint firmware:                      *)
(*   src/src/firmware/calibration/{mod,config,safety,types}.rs             *)
(*   src/src/firmware/calibration/tests/{inertia,friction}.rs              *)
(*                                                                         *)
(* Fixed-point units used for the f32 quantities of the source:            *)
(*   time          0.5 s      (1.0 s = 2, 0.5 s = 1, 3.0 s = 6)            *)
(*   current       0.1 A      (15.0 A = 150, trial current n A = 10*n)     *)
(*   velocity      0.1 rad/s  (10.0 rad/s = 100)                           *)
(*   position      0.1 rad                                                 *)
(*   acceleration  1 rad/s^2                                               *)
(*   temperature   1 degree C                                              *)
(*   kt, J, tau    0.001 (kt 0.15 = 150)                                   *)
(* A factor 1.1 is compared as 10*x > 11*limit, a factor k/10 of a        *)
(* velocity as (limit*k) \div 10.                                          *)
(***************************************************************************)
EXTENDS Integers, Sequences, FiniteSets, TLC

VARIABLES state, config, safety, inertia_test, friction_test, results,
          start_time, ret, clock, buffer, accepted

vars == <<state, config, safety, inertia_test, friction_test, results,
          start_time, ret, clock, buffer, accepted>>

\* a MeasurementBuffer exercised on its own, with the samples it has accepted
\* since it was last cleared
bufvars == <<buffer, accepted>>

----------------------------------------------------------------------------
(* Bounds of the exploration *)

\* sample timestamps (and start times) never exceed MaxTime half-seconds
MaxTime == 120

\* start() is called no later than MaxStartTime half-seconds
MaxStartTime == 1

\* the capacity N of the MeasurementBuffer<N> exercised on its own
BufferCapacity == 3

----------------------------------------------------------------------------
(* Program constants *)

NUM_TRIALS == 5
SAMPLES_PER_TRIAL == 100
NUM_VELOCITIES == 8
SAMPLES_PER_VELOCITY == 300
PHASE_INERTIA == 0
PHASE_FRICTION == 1
\* 1.0 s of acceleration, 0.5 s of settling (inertia.rs), in half-seconds
ACCEL_TIME == 2
SETTLE_TIME == 1
\* 1.0 s ramp, 3.0 s steady window (friction.rs), in half-seconds
RAMP_TIME == 2
STEADY_TIME == 6
\* validate(): max_current <= 15.0 A, max_velocity <= 10.0 rad/s
MAX_CURRENT_LIMIT == 150
MAX_VELOCITY_LIMIT == 100
\* check_safety(): temperature > 80.0
TEMPERATURE_LIMIT == 80
\* update(): InertiaTest::new(0.15), FrictionTest::new(0.15, ..)
DEFAULT_KT == 150
\* estimate_inertia_for_trial(): acceleration.abs() > 1.0
ACCEL_FILTER == 1

Abs(x) == IF x < 0 THEN -x ELSE x

----------------------------------------------------------------------------
(* types.rs *)

ErrorCodes == {"Success", "PositionLimit", "VelocityLimit", "CurrentLimit",
               "TemperatureLimit", "Timeout", "InvalidState",
               "ConvergenceFailed", "LowConfidence", "UserAbort",
               "HardwareError"}

StateTags == {"Idle", "Initializing", "InertiaTest", "FrictionTest",
              "TorqueConstantTest", "DampingTest", "Validation",
              "Finalizing", "Complete", "Failed"}

\* ErrorCode as u16 (#[repr(u16)])
ErrorCodeValue(code) ==
    CASE code = "Success" -> 0
      [] code = "PositionLimit" -> 1
      [] code = "VelocityLimit" -> 2
      [] code = "CurrentLimit" -> 3
      [] code = "TemperatureLimit" -> 4
      [] code = "Timeout" -> 5
      [] code = "InvalidState" -> 6
      [] code = "ConvergenceFailed" -> 7
      [] code = "LowConfidence" -> 8
      [] code = "UserAbort" -> 9
      [] code = "HardwareError" -> 10

\* CalibrationState: a tag, and the ErrorCode carried by Failed
St(tag) == [tag |-> tag, code |-> "Success"]
Failed(code) == [tag |-> "Failed", code |-> code]

\* Option::None
None == [some |-> FALSE]

\* MeasurementBuffer<N>: the samples[..count] prefix
BufferNew == << >>
BufferPush(buf, sample, N) == IF Len(buf) < N THEN Append(buf, sample) ELSE buf
BufferClear(buf) == << >>

\* the all-zero sample (MeasurementBuffer::new fills its array with it)
ZeroSample ==
    [timestamp |-> 0, position |-> 0, velocity |-> 0, acceleration |-> 0,
     current_iq |-> 0, temperature |-> 0]

\* MeasurementBuffer<N> field by field: the array samples[0..N-1] and count
MeasurementBuffer_new(N) ==
    [samples |-> [i \in 0..(N - 1) |-> ZeroSample], count |-> 0]

MeasurementBuffer_capacity(buf) == Cardinality(DOMAIN buf.samples)

\* push() that writes a sample arriving at a full buffer over the last slot
MeasurementBuffer_push_overwrite(buf, sample) ==
    IF buf.count < MeasurementBuffer_capacity(buf)
        THEN [buf |-> [buf EXCEPT !.samples[buf.count] = sample,
                                  !.count = @ + 1],
              result |-> "Ok"]
        ELSE [buf |-> [buf EXCEPT !.samples[buf.count - 1] = sample],
              result |-> "Err"]

\* push(): the buffer after the call and the Result
MeasurementBuffer_push(buf, sample) ==
    IF buf.count < MeasurementBuffer_capacity(buf)
        THEN [buf |-> [buf EXCEPT !.samples[buf.count] = sample,
                                  !.count = @ + 1],
              result |-> "Ok"]
        ELSE [buf |-> buf, result |-> "Err"]

\* samples(): the slice samples[..count], as a sequence
MeasurementBuffer_samples(buf) == [k \in 1..buf.count |-> buf.samples[k - 1]]

MeasurementBuffer_clear(buf) == [buf EXCEPT !.count = 0]

MeasurementBuffer_len(buf) == buf.count

MeasurementBuffer_is_empty(buf) == buf.count = 0

----------------------------------------------------------------------------
(* config.rs *)

\* validate() with the upper bound of max_current excluded (>= for >)
validate_strict(cfg) ==
    IF cfg.max_current <= 0 \/ cfg.max_current >= MAX_CURRENT_LIMIT THEN FALSE
    ELSE IF cfg.max_velocity <= 0 \/ cfg.max_velocity > MAX_VELOCITY_LIMIT THEN FALSE
    ELSE IF cfg.max_position_range <= 0 THEN FALSE
    ELSE IF cfg.phase_timeout <= 0 THEN FALSE
    ELSE TRUE

\* CalibrationConfig::validate: TRUE for Ok(()), FALSE for Err(_)
validate(cfg) ==
    IF cfg.max_current <= 0 \/ cfg.max_current > MAX_CURRENT_LIMIT THEN FALSE
    ELSE IF cfg.max_velocity <= 0 \/ cfg.max_velocity > MAX_VELOCITY_LIMIT THEN FALSE
    ELSE IF cfg.max_position_range <= 0 THEN FALSE
    ELSE IF cfg.phase_timeout <= 0 THEN FALSE
    ELSE TRUE

\* phase_enabled() with the test inverted (== 0 for != 0)
phase_enabled_inverted(cfg, phase) == (cfg.phases \div (2 ^ phase)) % 2 = 0

\* (self.phases & (1 << phase)) != 0
phase_enabled(cfg, phase) == (cfg.phases \div (2 ^ phase)) % 2 = 1

\* CalibrationManager::new(): the all-zero configuration
ZeroConfig ==
    [phases |-> 0, max_current |-> 0, max_velocity |-> 0,
     max_position_range |-> 0, phase_timeout |-> 0,
     return_home |-> FALSE, home_position |-> 0]

----------------------------------------------------------------------------
(* safety.rs *)

\* SafetyMonitor::new() with the phase timer left at 0.0
SafetyMonitor_new_timer_zero(cfg, current_position, current_time) ==
    [some |-> TRUE, config |-> cfg, start_time |-> current_time,
     phase_start_time |-> 0, home_position |-> current_position]

SafetyMonitor_new(cfg, current_position, current_time) ==
    [some |-> TRUE, config |-> cfg, start_time |-> current_time,
     phase_start_time |-> current_time, home_position |-> current_position]

\* reset_phase_timer() that leaves the timer as it was
reset_phase_timer_keep(saf, current_time) == saf

reset_phase_timer(saf, current_time) ==
    [saf EXCEPT !.phase_start_time = current_time]

\* check_safety() testing the velocity before the position
check_safety_velocity_first(saf, sample) ==
    IF 10 * Abs(sample.velocity) > 11 * saf.config.max_velocity
        THEN "VelocityLimit"
    ELSE IF Abs(sample.position - saf.home_position) > saf.config.max_position_range
        THEN "PositionLimit"
    ELSE IF 10 * Abs(sample.current_iq) > 11 * saf.config.max_current
        THEN "CurrentLimit"
    ELSE IF sample.temperature > TEMPERATURE_LIMIT
        THEN "TemperatureLimit"
    ELSE IF sample.timestamp - saf.phase_start_time > saf.config.phase_timeout
        THEN "Timeout"
    ELSE "Ok"

\* check_safety() without the phase timeout
check_safety_no_timeout(saf, sample) ==
    IF Abs(sample.position - saf.home_position) > saf.config.max_position_range
        THEN "PositionLimit"
    ELSE IF 10 * Abs(sample.velocity) > 11 * saf.config.max_velocity
        THEN "VelocityLimit"
    ELSE IF 10 * Abs(sample.current_iq) > 11 * saf.config.max_current
        THEN "CurrentLimit"
    ELSE IF sample.temperature > TEMPERATURE_LIMIT
        THEN "TemperatureLimit"
    ELSE "Ok"

\* check_safety() timing out as soon as the phase timeout is reached
check_safety_timeout_reached(saf, sample) ==
    IF Abs(sample.position - saf.home_position) > saf.config.max_position_range
        THEN "PositionLimit"
    ELSE IF 10 * Abs(sample.velocity) > 11 * saf.config.max_velocity
        THEN "VelocityLimit"
    ELSE IF 10 * Abs(sample.current_iq) > 11 * saf.config.max_current
        THEN "CurrentLimit"
    ELSE IF sample.temperature > TEMPERATURE_LIMIT
        THEN "TemperatureLimit"
    ELSE IF sample.timestamp - saf.phase_start_time >= saf.config.phase_timeout
        THEN "Timeout"
    ELSE "Ok"

\* "Ok" or the ErrorCode of the first violated limit
check_safety(saf, sample) ==
    IF Abs(sample.position - saf.home_position) > saf.config.max_position_range
        THEN "PositionLimit"
    ELSE IF 10 * Abs(sample.velocity) > 11 * saf.config.max_velocity
        THEN "VelocityLimit"
    ELSE IF 10 * Abs(sample.current_iq) > 11 * saf.config.max_current
        THEN "CurrentLimit"
    ELSE IF sample.temperature > TEMPERATURE_LIMIT
        THEN "TemperatureLimit"
    ELSE IF sample.timestamp - saf.phase_start_time > saf.config.phase_timeout
        THEN "Timeout"
    ELSE "Ok"

\* SafetyMonitor::elapsed_time
elapsed_time(saf, current_time) == current_time - saf.start_time

----------------------------------------------------------------------------
(* tests/inertia.rs *)

RECURSIVE SumAccel(_)
SumAccel(samples) ==
    IF samples = << >> THEN 0
    ELSE (IF Abs(Head(samples).acceleration) > ACCEL_FILTER
             THEN Head(samples).acceleration ELSE 0) + SumAccel(Tail(samples))

RECURSIVE CountAccel(_)
CountAccel(samples) ==
    IF samples = << >> THEN 0
    ELSE (IF Abs(Head(samples).acceleration) > ACCEL_FILTER THEN 1 ELSE 0)
         + CountAccel(Tail(samples))

\* truncating division of the fixed-point quotient
TDiv(a, b) == IF (a < 0) = (b < 0) THEN Abs(a) \div Abs(b) ELSE -(Abs(a) \div Abs(b))

InertiaTest_new(kt_nominal) ==
    [some |-> TRUE, trial |-> 0, phase |-> "Idle", start_time |-> 0,
     measurements |-> BufferNew,
     results |-> [i \in 0..(NUM_TRIALS - 1) |-> 0],
     kt_nominal |-> kt_nominal]

\* the command taken from the zero-based trial index
get_command_current_zero_based(test) == 10 * test.trial

\* (self.trial + 1) as f32 amperes, in 0.1 A
get_command_current(test) == 10 * (test.trial + 1)

\* the estimate taken as kt / mean(filtered acceleration), the commanded
\* current left out
estimate_inertia_no_current(test) ==
    LET count == CountAccel(test.measurements)
        sum   == SumAccel(test.measurements)
    IN  IF count = 0 THEN 0
        ELSE IF sum = 0 THEN 0
        ELSE TDiv(test.kt_nominal * count, sum)

\* J = kt * i_q / mean(filtered acceleration); 0 when nothing passes the filter.
\* With i_q in A and the mean = sum/count: J = kt * (trial+1) * count / sum.
estimate_inertia_for_trial(test) ==
    LET count == CountAccel(test.measurements)
        sum   == SumAccel(test.measurements)
    IN  IF count = 0 THEN 0
        ELSE IF sum = 0 THEN 0   \* f32 gives +-inf; not produced by the inputs used
        ELSE TDiv(test.kt_nominal * (test.trial + 1) * count, sum)

\* update() reporting done only once the trial index has passed NUM_TRIALS
InertiaTest_update_late_done(test, sample) ==
    CASE test.phase = "Idle" ->
           [test |-> [test EXCEPT !.start_time = sample.timestamp,
                                  !.measurements = BufferClear(@),
                                  !.phase = "Accelerating"],
            cmd |-> get_command_current(test), done |-> FALSE]
      [] test.phase = "Accelerating" ->
           LET pushed == [test EXCEPT !.measurements =
                              BufferPush(@, sample, SAMPLES_PER_TRIAL)]
           IN  [test |-> IF sample.timestamp - test.start_time > ACCEL_TIME
                            THEN [pushed EXCEPT !.phase = "WaitSettle",
                                                !.start_time = sample.timestamp]
                            ELSE pushed,
                cmd |-> get_command_current(test), done |-> FALSE]
      [] test.phase = "WaitSettle" ->
           IF sample.timestamp - test.start_time > SETTLE_TIME
           THEN LET stored == [test EXCEPT
                                  !.results[test.trial] = estimate_inertia_for_trial(test),
                                  !.trial = @ + 1]
                IN  IF stored.trial > NUM_TRIALS
                    THEN [test |-> stored, cmd |-> 0, done |-> TRUE]
                    ELSE [test |-> [stored EXCEPT !.phase = "Idle"],
                          cmd |-> 0, done |-> FALSE]
           ELSE [test |-> test, cmd |-> 0, done |-> FALSE]

\* returns the updated estimator with the (i_q_command, is_complete) pair
InertiaTest_update(test, sample) ==
    CASE test.phase = "Idle" ->
           [test |-> [test EXCEPT !.start_time = sample.timestamp,
                                  !.measurements = BufferClear(@),
                                  !.phase = "Accelerating"],
            cmd |-> get_command_current(test), done |-> FALSE]
      [] test.phase = "Accelerating" ->
           LET pushed == [test EXCEPT !.measurements =
                              BufferPush(@, sample, SAMPLES_PER_TRIAL)]
           IN  [test |-> IF sample.timestamp - test.start_time > ACCEL_TIME
                            THEN [pushed EXCEPT !.phase = "WaitSettle",
                                                !.start_time = sample.timestamp]
                            ELSE pushed,
                cmd |-> get_command_current(test), done |-> FALSE]
      [] test.phase = "WaitSettle" ->
           IF sample.timestamp - test.start_time > SETTLE_TIME
           THEN LET stored == [test EXCEPT
                                  !.results[test.trial] = estimate_inertia_for_trial(test),
                                  !.trial = @ + 1]
                IN  IF stored.trial >= NUM_TRIALS
                    THEN [test |-> stored, cmd |-> 0, done |-> TRUE]
                    ELSE [test |-> [stored EXCEPT !.phase = "Idle"],
                          cmd |-> 0, done |-> FALSE]
           ELSE [test |-> test, cmd |-> 0, done |-> FALSE]

RECURSIVE SumResults(_, _)
SumResults(res, n) == IF n = 0 THEN 0 ELSE res[n - 1] + SumResults(res, n - 1)

\* sum over the trials of (NUM_TRIALS*J - S)^2, S the sum of the estimates:
\* NUM_TRIALS^3 times the population variance
RECURSIVE SumSqDev(_, _, _)
SumSqDev(res, s, n) ==
    IF n = 0 THEN 0
    ELSE (NUM_TRIALS * res[n - 1] - s) * (NUM_TRIALS * res[n - 1] - s)
         + SumSqDev(res, s, n - 1)

\* cv = std_dev / mean compared with 0.05, 0.10, 0.20 as f32 does it:
\* mean > 0: cv < c  iff  var < c^2 * mean^2;  mean < 0: cv <= 0 < c;
\* mean = 0: cv is +inf or NaN and every comparison is false.
\* Confidence in 0.01.
InertiaConfidence(s, q) ==
    IF s < 0 THEN 100
    ELSE IF s = 0 THEN 50
    ELSE IF 80 * q < s * s THEN 100
    ELSE IF 20 * q < s * s THEN 90
    ELSE IF 5 * q < s * s THEN 70
    ELSE 50

\* get_result() averaging over the trials with a non-zero estimate only
InertiaTest_get_result_skip_zeros(test) ==
    LET s == SumResults(test.results, NUM_TRIALS)
        q == SumSqDev(test.results, s, NUM_TRIALS)
        n == Cardinality({i \in 0..(NUM_TRIALS - 1) : test.results[i] # 0})
    IN  [some |-> TRUE,
         J |-> IF n = 0 THEN 0 ELSE TDiv(s, n),
         variance |-> TDiv(q, NUM_TRIALS * NUM_TRIALS * NUM_TRIALS),
         confidence |-> InertiaConfidence(s, q)]

InertiaTest_get_result(test) ==
    LET s == SumResults(test.results, NUM_TRIALS)
        q == SumSqDev(test.results, s, NUM_TRIALS)
    IN  [some |-> TRUE,
         J |-> TDiv(s, NUM_TRIALS),
         variance |-> TDiv(q, NUM_TRIALS * NUM_TRIALS * NUM_TRIALS),
         confidence |-> InertiaConfidence(s, q)]

InertiaTest_get_progress(test) == <<test.trial, NUM_TRIALS>>

----------------------------------------------------------------------------
(* tests/friction.rs *)

\* sentinel standing for f32::MAX (and its negation for f32::MIN)
F32_MAX == 1000000000

SetMin(S) == CHOOSE x \in S : \A y \in S : x <= y
SetMax(S) == CHOOSE x \in S : \A y \in S : x >= y

\* FrictionTest::new() alternating the direction from one set-point to the next
FrictionTest_new_alternating(kt_nominal, max_velocity) ==
    [some |-> TRUE, velocity_index |-> 0, phase |-> "Ramping", start_time |-> 0,
     measurements |-> BufferNew,
     velocity_setpoints |->
         [i \in 0..(NUM_VELOCITIES - 1) |->
             CASE i = 0 -> (max_velocity * 1) \div 10
               [] i = 1 -> -((max_velocity * 1) \div 10)
               [] i = 2 -> (max_velocity * 2) \div 10
               [] i = 3 -> -((max_velocity * 2) \div 10)
               [] i = 4 -> (max_velocity * 4) \div 10
               [] i = 5 -> -((max_velocity * 4) \div 10)
               [] i = 6 -> (max_velocity * 8) \div 10
               [] i = 7 -> -((max_velocity * 8) \div 10)],
     friction_estimates |-> [i \in 0..(NUM_VELOCITIES - 1) |-> 0],
     kt_nominal |-> kt_nominal]

FrictionTest_new(kt_nominal, max_velocity) ==
    [some |-> TRUE, velocity_index |-> 0, phase |-> "Ramping", start_time |-> 0,
     measurements |-> BufferNew,
     velocity_setpoints |->
         [i \in 0..(NUM_VELOCITIES - 1) |->
             CASE i = 0 -> (max_velocity * 1) \div 10
               [] i = 1 -> (max_velocity * 2) \div 10
               [] i = 2 -> (max_velocity * 4) \div 10
               [] i = 3 -> (max_velocity * 8) \div 10
               [] i = 4 -> -((max_velocity * 1) \div 10)
               [] i = 5 -> -((max_velocity * 2) \div 10)
               [] i = 6 -> -((max_velocity * 4) \div 10)
               [] i = 7 -> -((max_velocity * 8) \div 10)],
     friction_estimates |-> [i \in 0..(NUM_VELOCITIES - 1) |-> 0],
     kt_nominal |-> kt_nominal]

RECURSIVE SumIq(_)
SumIq(samples) ==
    IF samples = << >> THEN 0 ELSE Head(samples).current_iq + SumIq(Tail(samples))

\* kt * mean(i_q) over the buffered samples, in 0.0001 Nm (kt unit * current unit).
\* An empty buffer makes the f32 mean 0/0; update() always pushes before estimating.
estimate_friction_at_velocity(test) ==
    IF Len(test.measurements) = 0 THEN 0
    ELSE TDiv(test.kt_nominal * SumIq(test.measurements), Len(test.measurements))

\* update() entering Steady without clearing the measurement buffer
FrictionTest_update_no_clear(test, sample) ==
    LET target_vel == test.velocity_setpoints[test.velocity_index]
    IN  CASE test.phase = "Ramping" ->
               [test |-> IF sample.timestamp - test.start_time > RAMP_TIME
                            THEN [test EXCEPT !.phase = "Steady",
                                              !.start_time = sample.timestamp]
                            ELSE test,
                cmd |-> target_vel, done |-> FALSE]
          [] test.phase = "Steady" ->
               LET pushed == [test EXCEPT !.measurements =
                                  BufferPush(@, sample, SAMPLES_PER_VELOCITY)]
               IN  IF sample.timestamp - test.start_time > STEADY_TIME
                   THEN LET stored == [pushed EXCEPT
                                !.friction_estimates[test.velocity_index] =
                                    estimate_friction_at_velocity(pushed),
                                !.velocity_index = @ + 1]
                        IN  IF stored.velocity_index >= NUM_VELOCITIES
                            THEN [test |-> stored, cmd |-> 0, done |-> TRUE]
                            ELSE [test |-> [stored EXCEPT !.phase = "Ramping",
                                                   !.start_time = sample.timestamp],
                                  cmd |-> target_vel, done |-> FALSE]
                   ELSE [test |-> pushed, cmd |-> target_vel, done |-> FALSE]

\* returns the updated estimator with the (velocity_command, is_complete) pair
FrictionTest_update(test, sample) ==
    LET target_vel == test.velocity_setpoints[test.velocity_index]
    IN  CASE test.phase = "Ramping" ->
               [test |-> IF sample.timestamp - test.start_time > RAMP_TIME
                            THEN [test EXCEPT !.phase = "Steady",
                                              !.start_time = sample.timestamp,
                                              !.measurements = BufferClear(@)]
                            ELSE test,
                cmd |-> target_vel, done |-> FALSE]
          [] test.phase = "Steady" ->
               LET pushed == [test EXCEPT !.measurements =
                                  BufferPush(@, sample, SAMPLES_PER_VELOCITY)]
               IN  IF sample.timestamp - test.start_time > STEADY_TIME
                   THEN LET stored == [pushed EXCEPT
                                !.friction_estimates[test.velocity_index] =
                                    estimate_friction_at_velocity(pushed),
                                !.velocity_index = @ + 1]
                        IN  IF stored.velocity_index >= NUM_VELOCITIES
                            THEN [test |-> stored, cmd |-> 0, done |-> TRUE]
                            ELSE [test |-> [stored EXCEPT !.phase = "Ramping",
                                                   !.start_time = sample.timestamp],
                                  cmd |-> target_vel, done |-> FALSE]
                   ELSE [test |-> pushed, cmd |-> target_vel, done |-> FALSE]

FrictionTest_get_result(test) ==
    LET idx == 0..(NUM_VELOCITIES - 1)
        pos == {i \in idx : test.velocity_setpoints[i] > 0}
        neg == {i \in idx : test.velocity_setpoints[i] < 0}
        tau_pos_min == SetMin({test.friction_estimates[i] : i \in pos} \cup {F32_MAX})
        tau_pos_max == SetMax({test.friction_estimates[i] : i \in pos} \cup {-F32_MAX})
        tau_neg_min == SetMin({-test.friction_estimates[i] : i \in neg} \cup {F32_MAX})
        vel_pos_max == SetMax({test.velocity_setpoints[i] : i \in pos} \cup {0})
        tau_coulomb == TDiv(tau_pos_min + tau_neg_min, 2)
        \* v_max in 0.1 rad/s; the fallback 1.0 rad/s is 10
        v_max == IF vel_pos_max > 0 THEN vel_pos_max ELSE 10
        \* the placeholder R^2 of 0.85, in 0.01
        r_squared == 85
    IN  [some |-> TRUE,
         tau_coulomb |-> tau_coulomb,
         tau_stribeck |-> TDiv(tau_coulomb * 3, 10),
         v_stribeck |-> 1,
         \* (0.0001 Nm) / (0.1 rad/s) = 0.001 Nm s/rad
         b_viscous |-> TDiv(tau_pos_max - tau_coulomb, v_max),
         r_squared |-> r_squared,
         confidence |-> IF r_squared > 90 THEN 95
                        ELSE IF r_squared > 80 THEN 85
                        ELSE 70]

FrictionTest_get_progress(test) == <<test.velocity_index, NUM_VELOCITIES>>

----------------------------------------------------------------------------
(* mod.rs: CalibrationManager *)

\* the manager object, as a record of its fields
Mgr ==
    [state |-> state, config |-> config, safety |-> safety,
     inertia_test |-> inertia_test, friction_test |-> friction_test,
     results |-> results, start_time |-> start_time]

CalibrationManager_new ==
    [state |-> St("Idle"), config |-> ZeroConfig, safety |-> None,
     inertia_test |-> None, friction_test |-> None,
     results |-> [inertia |-> None, friction |-> None,
                  torque_constant |-> None, damping |-> None],
     start_time |-> 0]

\* start() without the check that the manager is Idle
start_unchecked(m, cfg, current_position, current_time) ==
    IF ~validate(cfg)
        THEN [m |-> m, result |-> "InvalidState"]
    ELSE LET c == [cfg EXCEPT !.home_position = current_position]
         IN  [m |-> [m EXCEPT !.config = c,
                              !.safety = SafetyMonitor_new(c, current_position,
                                                           current_time),
                              !.start_time = current_time,
                              !.state = St("Initializing")],
              result |-> "Ok"]

\* start() storing the configuration before validating it
start_store_first(m, cfg, current_position, current_time) ==
    IF m.state # St("Idle")
        THEN [m |-> m, result |-> "InvalidState"]
    ELSE LET c == [cfg EXCEPT !.home_position = current_position]
             m1 == [m EXCEPT !.config = c]
         IN  IF ~validate(cfg)
             THEN [m |-> m1, result |-> "InvalidState"]
             ELSE [m |-> [m1 EXCEPT !.safety = SafetyMonitor_new(c, current_position,
                                                                 current_time),
                                    !.start_time = current_time,
                                    !.state = St("Initializing")],
                   result |-> "Ok"]

\* start() that marks a manager started twice as Failed(InvalidState)
start_fail_on_misuse(m, cfg, current_position, current_time) ==
    IF m.state # St("Idle")
        THEN [m |-> [m EXCEPT !.state = Failed("InvalidState")],
              result |-> "InvalidState"]
    ELSE IF ~validate(cfg)
        THEN [m |-> m, result |-> "InvalidState"]
    ELSE LET c == [cfg EXCEPT !.home_position = current_position]
         IN  [m |-> [m EXCEPT !.config = c,
                              !.safety = SafetyMonitor_new(c, current_position,
                                                           current_time),
                              !.start_time = current_time,
                              !.state = St("Initializing")],
              result |-> "Ok"]

\* start(): the manager after the call and the Result ("Ok" or the ErrorCode)
start(m, cfg, current_position, current_time) ==
    IF m.state # St("Idle")
        THEN [m |-> m, result |-> "InvalidState"]
    ELSE IF ~validate(cfg)
        THEN [m |-> m, result |-> "InvalidState"]
    ELSE LET c == [cfg EXCEPT !.home_position = current_position]
         IN  [m |-> [m EXCEPT !.config = c,
                              !.safety = SafetyMonitor_new(c, current_position,
                                                           current_time),
                              !.start_time = current_time,
                              !.state = St("Initializing")],
              result |-> "Ok"]

\* stop() that leaves a terminal state alone
stop_unless_terminal(m) ==
    IF m.state.tag \notin {"Idle", "Complete", "Failed"}
        THEN [m EXCEPT !.state = Failed("UserAbort")]
        ELSE m

stop(m) ==
    IF m.state # St("Idle")
        THEN [m EXCEPT !.state = Failed("UserAbort")]
        ELSE m

is_complete(m) == m.state.tag \in {"Complete", "Failed"}

\* reset_phase_timer on the Option<SafetyMonitor>
ResetTimer(saf, t) == IF saf.some THEN reset_phase_timer(saf, t) ELSE saf

Out(m, i_q, vel, complete) ==
    [m |-> m, i_q |-> i_q, vel |-> vel, complete |-> complete]

\* the match of update() moving on from the inertia test without storing
\* its result
dispatch_no_store(m, sample) ==
    CASE m.state.tag = "Initializing" ->
           IF phase_enabled(m.config, PHASE_INERTIA)
           THEN Out([m EXCEPT !.inertia_test = InertiaTest_new(DEFAULT_KT),
                              !.state = St("InertiaTest"),
                              !.safety = ResetTimer(@, sample.timestamp)],
                    0, 0, FALSE)
           ELSE IF phase_enabled(m.config, PHASE_FRICTION)
           THEN Out([m EXCEPT !.friction_test =
                                  FrictionTest_new(DEFAULT_KT, m.config.max_velocity),
                              !.state = St("FrictionTest"),
                              !.safety = ResetTimer(@, sample.timestamp)],
                    0, 0, FALSE)
           ELSE Out([m EXCEPT !.state = St("Complete")], 0, 0, TRUE)
      [] m.state.tag = "InertiaTest" ->
           IF m.inertia_test.some
           THEN LET r == InertiaTest_update(m.inertia_test, sample)
                    m1 == [m EXCEPT !.inertia_test = r.test]
                IN  IF r.done
                    THEN LET result == InertiaTest_get_result(r.test)
                             m2 == m1
                         IN  IF phase_enabled(m.config, PHASE_FRICTION)
                             THEN Out([m2 EXCEPT
                                          !.friction_test =
                                              FrictionTest_new(result.J,
                                                               m.config.max_velocity),
                                          !.state = St("FrictionTest"),
                                          !.safety = ResetTimer(@, sample.timestamp)],
                                      r.cmd, 0, FALSE)
                             ELSE Out([m2 EXCEPT !.state = St("Complete")], 0, 0, TRUE)
                    ELSE Out(m1, r.cmd, 0, FALSE)
           ELSE Out(m, 0, 0, FALSE)
      [] m.state.tag = "FrictionTest" ->
           IF m.friction_test.some
           THEN LET r == FrictionTest_update(m.friction_test, sample)
                    m1 == [m EXCEPT !.friction_test = r.test]
                IN  IF r.done
                    THEN Out([m1 EXCEPT
                                 !.results.friction = FrictionTest_get_result(r.test),
                                 !.state = St("Complete")],
                             0, 0, TRUE)
                    ELSE Out(m1, 0, r.cmd, FALSE)
           ELSE Out(m, 0, 0, FALSE)
      [] m.state.tag \in {"Complete", "Failed"} -> Out(m, 0, 0, TRUE)
      [] OTHER -> Out(m, 0, 0, FALSE)

\* the match on self.state of update(), after the safety check has passed
dispatch(m, sample) ==
    CASE m.state.tag = "Initializing" ->
           IF phase_enabled(m.config, PHASE_INERTIA)
           THEN Out([m EXCEPT !.inertia_test = InertiaTest_new(DEFAULT_KT),
                              !.state = St("InertiaTest"),
                              !.safety = ResetTimer(@, sample.timestamp)],
                    0, 0, FALSE)
           ELSE IF phase_enabled(m.config, PHASE_FRICTION)
           THEN Out([m EXCEPT !.friction_test =
                                  FrictionTest_new(DEFAULT_KT, m.config.max_velocity),
                              !.state = St("FrictionTest"),
                              !.safety = ResetTimer(@, sample.timestamp)],
                    0, 0, FALSE)
           ELSE Out([m EXCEPT !.state = St("Complete")], 0, 0, TRUE)
      [] m.state.tag = "InertiaTest" ->
           IF m.inertia_test.some
           THEN LET r == InertiaTest_update(m.inertia_test, sample)
                    m1 == [m EXCEPT !.inertia_test = r.test]
                IN  IF r.done
                    THEN LET result == InertiaTest_get_result(r.test)
                             m2 == [m1 EXCEPT !.results.inertia = result]
                         IN  IF phase_enabled(m.config, PHASE_FRICTION)
                             THEN Out([m2 EXCEPT
                                          !.friction_test =
                                              FrictionTest_new(result.J,
                                                               m.config.max_velocity),
                                          !.state = St("FrictionTest"),
                                          !.safety = ResetTimer(@, sample.timestamp)],
                                      r.cmd, 0, FALSE)
                             ELSE Out([m2 EXCEPT !.state = St("Complete")], 0, 0, TRUE)
                    ELSE Out(m1, r.cmd, 0, FALSE)
           ELSE Out(m, 0, 0, FALSE)
      [] m.state.tag = "FrictionTest" ->
           IF m.friction_test.some
           THEN LET r == FrictionTest_update(m.friction_test, sample)
                    m1 == [m EXCEPT !.friction_test = r.test]
                IN  IF r.done
                    THEN Out([m1 EXCEPT
                                 !.results.friction = FrictionTest_get_result(r.test),
                                 !.state = St("Complete")],
                             0, 0, TRUE)
                    ELSE Out(m1, 0, r.cmd, FALSE)
           ELSE Out(m, 0, 0, FALSE)
      [] m.state.tag \in {"Complete", "Failed"} -> Out(m, 0, 0, TRUE)
      [] OTHER -> Out(m, 0, 0, FALSE)

\* update() that returns from a terminal state before the safety check
update_terminal_first(m, sample) ==
    IF is_complete(m)
        THEN Out(m, 0, 0, TRUE)
    ELSE IF m.safety.some /\ check_safety(m.safety, sample) # "Ok"
        THEN Out([m EXCEPT !.state = Failed(check_safety(m.safety, sample))],
                 0, 0, TRUE)
        ELSE dispatch(m, sample)

\* update() that hands the sample to the estimator before the safety check
update_forward_first(m, sample) ==
    LET r == dispatch(m, sample)
    IN  IF m.safety.some /\ check_safety(m.safety, sample) # "Ok"
        THEN Out([r.m EXCEPT !.state = Failed(check_safety(m.safety, sample))],
                 0, 0, TRUE)
        ELSE r

\* update() returning is_complete = false from a failed safety check
update_failure_not_complete(m, sample) ==
    IF m.safety.some /\ check_safety(m.safety, sample) # "Ok"
        THEN Out([m EXCEPT !.state = Failed(check_safety(m.safety, sample))],
                 0, 0, FALSE)
        ELSE dispatch(m, sample)

\* update() that looks neither at the sample nor at the state
update_ignore_sample(m, sample) == Out(m, 0, 0, is_complete(m))

\* update(): the manager after the call and the returned
\* (i_q_command, velocity_command, is_complete)
update(m, sample) ==
    IF m.safety.some /\ check_safety(m.safety, sample) # "Ok"
        THEN Out([m EXCEPT !.state = Failed(check_safety(m.safety, sample))],
                 0, 0, TRUE)
        ELSE dispatch(m, sample)

\* the MotorParameters of get_result() reading the stored results only once
\* the calibration has completed
ResultParameters_complete_only(m) ==
    LET done == m.state.tag = "Complete"
    IN  [inertia_J |-> IF done /\ m.results.inertia.some
                          THEN m.results.inertia.J ELSE 1,
         torque_constant_kt |-> DEFAULT_KT,
         damping_b |-> 5,
         friction_coulomb |-> IF done /\ m.results.friction.some
                                 THEN m.results.friction.tau_coulomb ELSE 200,
         friction_stribeck |-> IF done /\ m.results.friction.some
                                  THEN m.results.friction.tau_stribeck ELSE 100,
         friction_vstribeck |-> IF done /\ m.results.friction.some
                                   THEN m.results.friction.v_stribeck ELSE 1,
         friction_viscous |-> IF done /\ m.results.friction.some
                                 THEN m.results.friction.b_viscous ELSE 1]

\* the MotorParameters of get_result(): the stored results, or the defaults
\* 0.001 kg m^2, 0.15 Nm/A, 0.0005 (in 0.0001), 0.02 Nm and 0.01 Nm (in
\* 0.0001 Nm), 0.1 rad/s, 0.001 Nm s/rad
ResultParameters(m) ==
    [inertia_J |-> IF m.results.inertia.some THEN m.results.inertia.J ELSE 1,
     torque_constant_kt |-> IF m.results.torque_constant.some
                               THEN m.results.torque_constant.value ELSE DEFAULT_KT,
     damping_b |-> IF m.results.damping.some THEN m.results.damping.value ELSE 5,
     friction_coulomb |-> IF m.results.friction.some
                             THEN m.results.friction.tau_coulomb ELSE 200,
     friction_stribeck |-> IF m.results.friction.some
                              THEN m.results.friction.tau_stribeck ELSE 100,
     friction_vstribeck |-> IF m.results.friction.some
                               THEN m.results.friction.v_stribeck ELSE 1,
     friction_viscous |-> IF m.results.friction.some
                             THEN m.results.friction.b_viscous ELSE 1]

\* the CalibrationConfidence of get_result(), in 0.01; overall is the
\* literal 0.85
ResultConfidence(m) ==
    [overall |-> 85,
     inertia |-> IF m.results.inertia.some THEN m.results.inertia.confidence ELSE 0,
     friction |-> IF m.results.friction.some THEN m.results.friction.confidence ELSE 0,
     torque_constant |-> 0,
     validation_rms |-> 0]

\* get_result() reporting success for every terminal state
get_result_success_when_done(m, current_time) ==
    [success |-> is_complete(m),
     parameters |-> ResultParameters(m),
     confidence |-> ResultConfidence(m),
     total_time |-> IF m.safety.some THEN elapsed_time(m.safety, current_time) ELSE 0,
     error_code |-> IF m.state.tag = "Failed" THEN ErrorCodeValue(m.state.code) ELSE 0]

get_result(m, current_time) ==
    [success |-> m.state.tag = "Complete",
     parameters |-> ResultParameters(m),
     confidence |-> ResultConfidence(m),
     total_time |-> IF m.safety.some THEN elapsed_time(m.safety, current_time) ELSE 0,
     error_code |-> IF m.state.tag = "Failed" THEN ErrorCodeValue(m.state.code) ELSE 0]

\* nominal phase durations of get_status(): 15.0 s and 30.0 s, in half-seconds
INERTIA_NOMINAL_TIME == 30
FRICTION_NOMINAL_TIME == 60

\* Option<&Test>.map(get_progress).unwrap_or(0.0), as a fraction <<num, den>>
ProgressOr0(test, progress) == IF test.some THEN progress ELSE <<0, 1>>

\* nominal * (1.0 - progress), as a fraction <<num, den>> of half-seconds
Remaining(nominal, progress) ==
    <<nominal * (progress[2] - progress[1]), progress[2]>>

Status(phase, progress, time_remaining) ==
    [phase |-> phase, progress |-> progress, time_remaining |-> time_remaining,
     current_position |-> 0, current_velocity |-> 0, current_iq |-> 0]

\* get_status() reporting no progress in the terminal states
get_status_terminal_zero(m, current_time) ==
    CASE m.state.tag = "InertiaTest" ->
           LET progress == ProgressOr0(m.inertia_test,
                                       InertiaTest_get_progress(m.inertia_test))
           IN  Status("InertiaTest", progress,
                      Remaining(INERTIA_NOMINAL_TIME, progress))
      [] m.state.tag = "FrictionTest" ->
           LET progress == ProgressOr0(m.friction_test,
                                       FrictionTest_get_progress(m.friction_test))
           IN  Status("FrictionTest", progress,
                      Remaining(FRICTION_NOMINAL_TIME, progress))
      [] m.state.tag = "Complete" -> Status("Complete", <<0, 1>>, <<0, 1>>)
      [] m.state.tag = "Failed" -> Status("Failed", <<0, 1>>, <<0, 1>>)
      [] OTHER -> Status("Idle", <<0, 1>>, <<0, 1>>)

\* get_status(): progress and time_remaining are fractions <<num, den>>
get_status(m, current_time) ==
    CASE m.state.tag = "InertiaTest" ->
           LET progress == ProgressOr0(m.inertia_test,
                                       InertiaTest_get_progress(m.inertia_test))
           IN  Status("InertiaTest", progress,
                      Remaining(INERTIA_NOMINAL_TIME, progress))
      [] m.state.tag = "FrictionTest" ->
           LET progress == ProgressOr0(m.friction_test,
                                       FrictionTest_get_progress(m.friction_test))
           IN  Status("FrictionTest", progress,
                      Remaining(FRICTION_NOMINAL_TIME, progress))
      [] m.state.tag = "Complete" -> Status("Complete", <<1, 1>>, <<0, 1>>)
      [] m.state.tag = "Failed" -> Status("Failed", <<1, 1>>, <<0, 1>>)
      [] OTHER -> Status("Idle", <<0, 1>>, <<0, 1>>)

----------------------------------------------------------------------------
(* Inputs supplied by the callers of the manager *)

\* The sample producer is periodic: one sample every half-second.  A caller
\* may also come back much later (a stalled producer, a late poll).
SamplePeriod == {1}
FarLater == MaxTime + 1

\* valid configurations handed to start(): every selection of the inertia and
\* friction phases with a short, a medium and a long timeout at the smallest
\* max_current, an inertia-only run at the largest max_current, and runs
\* that select only the torque-constant or only the validation phase
ValidConfigs ==
    [phases : 0..3,
     max_current : {5},
     max_velocity : {MAX_VELOCITY_LIMIT},
     max_position_range : {10},
     phase_timeout : {4, 40, MaxTime},
     return_home : {FALSE},
     home_position : {7}]
    \cup
    [phases : {1},
     max_current : {MAX_CURRENT_LIMIT},
     max_velocity : {MAX_VELOCITY_LIMIT},
     max_position_range : {10},
     phase_timeout : {40},
     return_home : {FALSE},
     home_position : {7}]
    \cup
    [phases : {4, 16},
     max_current : {5},
     max_velocity : {MAX_VELOCITY_LIMIT},
     max_position_range : {10},
     phase_timeout : {4},
     return_home : {FALSE},
     home_position : {7}]

BaseConfig ==
    [phases |-> 3, max_current |-> 5, max_velocity |-> MAX_VELOCITY_LIMIT,
     max_position_range |-> 10, phase_timeout |-> 4, return_home |-> FALSE,
     home_position |-> 7]

\* configurations with exactly one field outside its domain
InvalidConfigs ==
    {[BaseConfig EXCEPT !.max_current = x] : x \in {0, -10, MAX_CURRENT_LIMIT + 1}}
    \cup {[BaseConfig EXCEPT !.max_velocity = x] : x \in {0, MAX_VELOCITY_LIMIT + 1}}
    \cup {[BaseConfig EXCEPT !.max_position_range = x] : x \in {0}}
    \cup {[BaseConfig EXCEPT !.phase_timeout = x] : x \in {0}}

Configs == ValidConfigs \cup InvalidConfigs

\* configurations tried again on a manager that has already been started:
\* one valid, one invalid
RestartConfigs == {BaseConfig, [BaseConfig EXCEPT !.max_current = 0]}

StartConfigs == IF state = St("Idle") THEN Configs ELSE RestartConfigs

\* current_position handed to start(); current_time is the clock
StartPositions == {0, 20}

\* MeasurementSample values. The joint is at an offset from the position it
\* had when calibration started (from 0 before that). Each limited field
\* takes one value inside and one outside the limits of every valid
\* configuration; the inside values of offset (10), velocity (110) and
\* temperature (80) lie exactly on their thresholds. A sample has at most one
\* field out of range, or both position and velocity.
SampleValues ==
    {v \in [offset : {10, 11},
            velocity : {110, 111},
            acceleration : {2},
            current_iq : {5, 166},
            temperature : {80, 81}] :
        \/ (IF v.offset = 11 THEN 1 ELSE 0) + (IF v.velocity = 111 THEN 1 ELSE 0)
             + (IF v.current_iq = 166 THEN 1 ELSE 0)
             + (IF v.temperature = 81 THEN 1 ELSE 0) <= 1
        \/ (v.offset = 11 /\ v.velocity = 111 /\ v.current_iq = 5
               /\ v.temperature = 80)}

NominalValues ==
    {v \in SampleValues : v.offset = 10 /\ v.velocity = 110 /\ v.current_iq = 5
                             /\ v.temperature = 80}

Home == IF safety.some THEN safety.home_position ELSE 0

Sample(v, t) ==
    [timestamp |-> t, position |-> Home + v.offset, velocity |-> v.velocity,
     acceleration |-> v.acceleration, current_iq |-> v.current_iq,
     temperature |-> v.temperature]

\* the samples a caller may pass next: any value one period after the last
\* one, or a sample within the value limits much later
SampleInputs ==
    {Sample(v, clock + d) : v \in SampleValues, d \in SamplePeriod}
    \cup {Sample(v, clock + FarLater) : v \in NominalValues}

\* ret: the last call made on the manager, the sample it was given (update)
\* and what it returned
NoRet ==
    [op |-> "none", result |-> "none", i_q |-> 0, vel |-> 0, complete |-> FALSE,
     sample |-> ZeroSample]

----------------------------------------------------------------------------
(* The state machine *)

SetMgr(m) ==
    /\ state' = m.state
    /\ config' = m.config
    /\ safety' = m.safety
    /\ inertia_test' = m.inertia_test
    /\ friction_test' = m.friction_test
    /\ results' = m.results
    /\ start_time' = m.start_time

Init ==
    /\ state = CalibrationManager_new.state
    /\ config = CalibrationManager_new.config
    /\ safety = CalibrationManager_new.safety
    /\ inertia_test = CalibrationManager_new.inertia_test
    /\ friction_test = CalibrationManager_new.friction_test
    /\ results = CalibrationManager_new.results
    /\ start_time = CalibrationManager_new.start_time
    /\ ret = NoRet
    /\ clock = 0
    /\ buffer = MeasurementBuffer_new(BufferCapacity)
    /\ accepted = << >>

\* start(cfg, p, t): t becomes the clock when the call succeeds
Start(cfg, p, t) ==
    /\ t <= MaxStartTime
    /\ LET r == start(Mgr, cfg, p, t)
       IN  /\ SetMgr(r.m)
           /\ ret' = [NoRet EXCEPT !.op = "start", !.result = r.result]
           /\ clock' = IF r.result = "Ok" THEN t ELSE clock
           /\ UNCHANGED bufvars

Stop ==
    /\ SetMgr(stop(Mgr))
    /\ ret' = [NoRet EXCEPT !.op = "stop"]
    /\ UNCHANGED <<clock, buffer, accepted>>

\* update(sample). The clock follows the sample timestamps, up to MaxTime,
\* for as long as the manager is not in a terminal state.
Update(sample) ==
    LET r == update(Mgr, sample)
    IN  /\ is_complete(r.m) \/ sample.timestamp <= MaxTime
        /\ SetMgr(r.m)
        /\ ret' = [op |-> "update", result |-> "none", i_q |-> r.i_q,
                   vel |-> r.vel, complete |-> r.complete, sample |-> sample]
        /\ clock' = IF is_complete(r.m) THEN clock ELSE sample.timestamp
        /\ UNCHANGED bufvars

Next ==
    \/ \E cfg \in StartConfigs, p \in StartPositions : Start(cfg, p, clock)
    \/ Stop
    \/ \E sample \in SampleInputs : Update(sample)

Spec == Init /\ [][Next]_vars

----------------------------------------------------------------------------
(* A polled run: one start(), then update() on every tick of the control
   loop, each sample later than the one before, until update() reports
   completion.  The loop never gives up polling a running calibration. *)

PolledStart(cfg, p) ==
    /\ state = St("Idle")
    /\ Start(cfg, p, clock)

\* update(sample) on a running calibration, as in Update
PolledUpdate(sample) ==
    /\ state.tag \notin {"Idle", "Complete", "Failed"}
    /\ \E r \in {update(Mgr, sample)} :
          /\ is_complete(r.m) \/ sample.timestamp <= MaxTime
          /\ SetMgr(r.m)
          /\ ret' = [op |-> "update", result |-> "none", i_q |-> r.i_q,
                     vel |-> r.vel, complete |-> r.complete, sample |-> sample]
          /\ clock' = IF is_complete(r.m) THEN clock ELSE sample.timestamp
          /\ UNCHANGED bufvars

PolledNext ==
    \/ \E cfg \in ValidConfigs, p \in StartPositions : PolledStart(cfg, p)
    \/ \E sample \in SampleInputs : PolledUpdate(sample)

SpecPolled ==
    /\ Init
    /\ [][PolledNext]_vars
    /\ WF_vars(\E sample \in SampleInputs : PolledUpdate(sample))

----------------------------------------------------------------------------
(* check_safety() on its own: the monitor of a started manager, before and
   after the first phase entry, is handed one sample after another *)

SafetyConfigs ==
    {[BaseConfig EXCEPT !.phases = 1],
     [BaseConfig EXCEPT !.phases = 1, !.max_current = 50, !.max_velocity = 40,
                        !.phase_timeout = 40]}

\* the managers whose monitor is exercised: started at (p, t), and the same
\* after a first update() three periods later has entered the inertia phase
SafetyManagers ==
    LET Started == {start(CalibrationManager_new, cfg, p, t).m :
                        cfg \in SafetyConfigs, p \in StartPositions,
                        t \in 0..MaxStartTime}
    IN  Started
        \cup {update(m, [ZeroSample EXCEPT !.timestamp = m.start_time + 3,
                                           !.position = m.safety.home_position]).m :
                 m \in Started}

\* every field on either side of its limit and exactly on it, both signs
SafetySamples ==
    LET r  == safety.config.max_position_range
        v  == (11 * safety.config.max_velocity) \div 10
        i  == (11 * safety.config.max_current) \div 10
        t0 == safety.phase_start_time + safety.config.phase_timeout
    IN  [timestamp : {t0, t0 + 1},
         position : {safety.home_position + o : o \in {-(r + 1), -r, 0, r, r + 1}},
         velocity : {-(v + 1), -v, 0, v, v + 1},
         acceleration : {0},
         current_iq : {-(i + 1), -i, 0, i, i + 1},
         temperature : {TEMPERATURE_LIMIT, TEMPERATURE_LIMIT + 1}]

SafetyInit ==
    /\ \E m \in SafetyManagers : /\ state = m.state
                                 /\ config = m.config
                                 /\ safety = m.safety
                                 /\ inertia_test = m.inertia_test
                                 /\ friction_test = m.friction_test
                                 /\ results = m.results
                                 /\ start_time = m.start_time
    /\ ret = NoRet
    /\ clock = start_time
    /\ buffer = MeasurementBuffer_new(BufferCapacity)
    /\ accepted = << >>

\* safety.check_safety(sample): reads the monitor, changes nothing
SafetyCheck(sample) ==
    /\ ret' = [NoRet EXCEPT !.op = "check_safety",
                            !.result = check_safety(safety, sample),
                            !.sample = sample]
    /\ UNCHANGED <<state, config, safety, inertia_test, friction_test, results,
                   start_time, clock, buffer, accepted>>

SafetyNext == \E sample \in SafetySamples : SafetyCheck(sample)

SpecSafety == SafetyInit /\ [][SafetyNext]_vars

----------------------------------------------------------------------------
(* An undisturbed run: one start() with the inertia and friction phases
   enabled, then a periodic stream of samples inside every value limit,
   polled until update() reports completion *)

\* phases = INERTIA | FRICTION, max_current = 5 A, max_velocity = 4 rad/s,
\* max_position_range = 1.0 rad, phase_timeout = 20 s
EndToEndConfig ==
    [phases |-> 3, max_current |-> 50, max_velocity |-> 40,
     max_position_range |-> 10, phase_timeout |-> 40, return_home |-> FALSE,
     home_position |-> 0]

\* sample periods of 0.5 s, 1 s and 2 s
EndToEndPeriods == {1, 2, 4}

\* the period of the stream: chosen with the first sample, kept afterwards
StreamPeriods == IF ret.op = "update" THEN {ret.period} ELSE EndToEndPeriods

\* a sample with position, velocity and current exactly on their limits
EndToEndSample(t) ==
    [timestamp |-> t, position |-> Home + 10, velocity |-> 44, acceleration |-> 2,
     current_iq |-> 55, temperature |-> TEMPERATURE_LIMIT]

EndToEndStart(p) ==
    /\ state = St("Idle")
    /\ Start(EndToEndConfig, p, clock)

EndToEndUpdate(d) ==
    LET sample == EndToEndSample(clock + d)
        r == update(Mgr, sample)
    IN  /\ state.tag \notin {"Idle", "Complete", "Failed"}
        /\ sample.timestamp <= MaxTime
        /\ SetMgr(r.m)
        /\ ret' = [op |-> "update", result |-> "none", i_q |-> r.i_q,
                   vel |-> r.vel, complete |-> r.complete, sample |-> sample,
                   period |-> d]
        /\ clock' = sample.timestamp
        /\ UNCHANGED bufvars

EndToEndNext ==
    \/ \E p \in StartPositions : EndToEndStart(p)
    \/ \E d \in StreamPeriods : EndToEndUpdate(d)

SpecEndToEnd == Init /\ [][EndToEndNext]_vars

----------------------------------------------------------------------------
(* The inertia estimator on its own: InertiaTest::new(kt), then one
   update(sample) after another until it reports done.  Timestamps have a
   resolution of half a second; at time BurstTime the producer delivers any
   number of samples carrying that same timestamp. *)

BurstTime == 2

\* accelerations in rad/s^2: 1 lies on the filter threshold, 2 and -2 beyond
InertiaAccelerations == {1, 2, -2}

InertiaKts == {DEFAULT_KT, 100}

InertiaPeriods == IF clock = BurstTime THEN {0, 1} ELSE {1}

\* the accelerations the next sample may carry: within one Accelerating
\* sub-phase the acceleration is steady, except that a weak first sample, or
\* a buffer full of weak samples, may be followed by strong ones
NextAccelerations ==
    LET buf == inertia_test.measurements
    IN  IF inertia_test.phase # "Accelerating" THEN {0}
        ELSE IF buf = << >> THEN InertiaAccelerations
        ELSE {buf[Len(buf)].acceleration}
             \cup (IF /\ Abs(buf[Len(buf)].acceleration) <= ACCEL_FILTER
                      /\ Len(buf) \in {1, SAMPLES_PER_TRIAL}
                   THEN InertiaAccelerations ELSE {})

InertiaSample(a, t) ==
    [timestamp |-> t, position |-> 0, velocity |-> 0, acceleration |-> a,
     current_iq |-> 0, temperature |-> 25]

\* the manager that owns the estimator: started with the inertia phase
\* alone, its first update() done
InertiaInit ==
    /\ LET cfg == [BaseConfig EXCEPT !.phases = 1, !.phase_timeout = MaxTime]
           m == update(start(CalibrationManager_new, cfg, 0, 0).m,
                       InertiaSample(0, 0)).m
       IN  /\ state = m.state
           /\ config = m.config
           /\ safety = m.safety
           /\ friction_test = m.friction_test
           /\ results = m.results
           /\ start_time = m.start_time
    /\ \E kt \in InertiaKts : inertia_test = InertiaTest_new(kt)
    /\ ret = NoRet
    /\ clock = 0
    /\ buffer = MeasurementBuffer_new(BufferCapacity)
    /\ accepted = << >>

\* inertia_test.update(sample), for as long as it has not reported done
InertiaUpdate(sample) ==
    LET r == InertiaTest_update(inertia_test, sample)
    IN  /\ inertia_test.trial < NUM_TRIALS
        /\ inertia_test' = r.test
        /\ ret' = [op |-> "inertia_update", result |-> "none", i_q |-> r.cmd,
                   vel |-> 0, complete |-> r.done, sample |-> sample]
        /\ clock' = sample.timestamp
        /\ UNCHANGED <<state, config, safety, friction_test, results, start_time,
                       buffer, accepted>>

InertiaNext ==
    \E d \in InertiaPeriods, a \in NextAccelerations :
        InertiaUpdate(InertiaSample(a, clock + d))

SpecInertia == InertiaInit /\ [][InertiaNext]_vars

----------------------------------------------------------------------------
(* A MeasurementBuffer<N> on its own: any sequence of push(sample) and
   clear() on a buffer of capacity BufferCapacity, beside a manager that is
   never started *)

\* the pushed samples differ in their acceleration; the all-zero sample, equal
\* to the initial content of the array, is one of them
BufferSamples == {[ZeroSample EXCEPT !.acceleration = a] : a \in {0, 1, 2}}

Push(sample) ==
    LET r == MeasurementBuffer_push(buffer, sample)
    IN  /\ buffer' = r.buf
        /\ accepted' = IF r.result = "Ok" THEN Append(accepted, sample)
                                          ELSE accepted
        /\ ret' = [NoRet EXCEPT !.op = "push", !.result = r.result,
                                !.sample = sample]
        /\ UNCHANGED <<state, config, safety, inertia_test, friction_test, results,
                       start_time, clock>>

Clear ==
    /\ buffer' = MeasurementBuffer_clear(buffer)
    /\ accepted' = << >>
    /\ ret' = [NoRet EXCEPT !.op = "clear"]
    /\ UNCHANGED <<state, config, safety, inertia_test, friction_test, results,
                   start_time, clock>>

BufferNext ==
    \/ \E sample \in BufferSamples : Push(sample)
    \/ Clear

SpecBuffer == Init /\ [][BufferNext]_vars

----------------------------------------------------------------------------
(* Properties of the calibration manager *)

\* the limits of section 4.2 that a sample violates, read off the monitor
ViolatedLimits(saf, sample) ==
    {c \in {"PositionLimit"} :
        Abs(sample.position - saf.home_position) > saf.config.max_position_range}
    \cup {c \in {"VelocityLimit"} :
        10 * Abs(sample.velocity) > 11 * saf.config.max_velocity}
    \cup {c \in {"CurrentLimit"} :
        10 * Abs(sample.current_iq) > 11 * saf.config.max_current}
    \cup {c \in {"TemperatureLimit"} : sample.temperature > 80}
    \cup {c \in {"Timeout"} :
        sample.timestamp - saf.phase_start_time > saf.config.phase_timeout}

\* a configuration inside the documented domains
InDomain(cfg) ==
    /\ 0 < cfg.max_current /\ cfg.max_current <= 150
    /\ 0 < cfg.max_velocity /\ cfg.max_velocity <= 100
    /\ 0 < cfg.max_position_range
    /\ 0 < cfg.phase_timeout

ZeroCommandComplete(r) == r.i_q = 0 /\ r.vel = 0 /\ r.complete = TRUE

\* C1: an update() on a started manager whose sample violates a safety limit
\* leaves the state Failed(code), code the error code of a violated limit, and
\* returns (0, 0, true), whatever the state before the call was.
C1_ViolationForcesFailed ==
    [][(/\ ret'.op = "update"
        /\ safety.some
        /\ ViolatedLimits(safety, ret'.sample) # {})
          => (/\ state'.tag = "Failed"
              /\ state'.code \in ViolatedLimits(safety, ret'.sample)
              /\ ZeroCommandComplete(ret'))]_vars

\* C1 witness: a velocity violation cut short a running inertia trial
C1_Witness ==
    /\ state = Failed("VelocityLimit")
    /\ ret.op = "update"
    /\ inertia_test.some /\ inertia_test.phase = "Accelerating"

\* C2: every command returned by update() after a successful start() stays
\* within config.max_current and config.max_velocity in magnitude.
C2_CommandsWithinConfig ==
    (ret.op = "update" /\ safety.some)
        => (Abs(ret.i_q) <= config.max_current /\ Abs(ret.vel) <= config.max_velocity)

\* C3: once the state is Complete it stays Complete under every further
\* update() and stop(), and every such update() returns (0, 0, true).
C3_CompleteIsPermanent ==
    [][state.tag = "Complete"
          => (/\ state'.tag = "Complete"
              /\ (ret'.op = "update" => ZeroCommandComplete(ret')))]_vars

\* C4: once the state is Failed(c), update() changes nothing in the manager
\* and returns (0, 0, true).
C4_FailedUpdateIsNoOp ==
    [][(state.tag = "Failed" /\ ret'.op = "update")
          => (Mgr' = Mgr /\ ZeroCommandComplete(ret'))]_vars

\* C5: stop() in any state but Idle leaves Failed(UserAbort); a repeated
\* stop() changes nothing further; the update() that follows a stop() returns
\* (0, 0, true) and leaves both estimators untouched.
C5_StopAborts ==
    /\ [](ret.op = "stop" => stop(Mgr) = Mgr)
    /\ [][/\ (ret'.op = "stop" /\ state.tag # "Idle") => state' = Failed("UserAbort")
          /\ (ret'.op = "update" /\ ret.op = "stop" /\ state.tag # "Idle")
                => (/\ ZeroCommandComplete(ret')
                    /\ inertia_test' = inertia_test
                    /\ friction_test' = friction_test)]_vars

\* C5 witness: an update() arrived after stop() interrupted a friction test
C5_Witness ==
    /\ state = Failed("UserAbort")
    /\ ret.op = "update"
    /\ friction_test.some /\ friction_test.phase = "Steady"

\* C6: stop() on an Idle manager and on an already-Failed manager changes
\* nothing, the stored error code included.
C6_StopNoOpOnIdleAndFailed ==
    [][(ret'.op = "stop" /\ state.tag \in {"Idle", "Failed"}) => Mgr' = Mgr]_vars

\* C7: start() on a manager that is not Idle returns InvalidState and changes
\* nothing; no call brings the manager back to Idle, so a start() succeeds only
\* from the state a fresh manager is in and at most once.
C7_StartOnlyFromIdle ==
    [][/\ (ret'.op = "start" /\ state.tag # "Idle")
             => (ret'.result = "InvalidState" /\ Mgr' = Mgr)
       /\ state.tag # "Idle" => state'.tag # "Idle"
       /\ (ret'.op = "start" /\ ret'.result = "Ok")
             => (state.tag = "Idle" /\ state'.tag # "Idle")]_vars

\* C7 witness: a start() was refused on a manager that had completed
C7_Witness ==
    state.tag = "Complete" /\ ret.op = "start" /\ ret.result = "InvalidState"

\* C8: start() on an Idle manager with a configuration inside the domains
\* returns Ok and leaves the state Initializing, for every phases bitmask,
\* position and time.
C8_ValidStartSucceeds ==
    [][\A cfg \in Configs, p \in StartPositions :
          (state.tag = "Idle" /\ InDomain(cfg) /\ Start(cfg, p, clock))
              => (ret'.result = "Ok" /\ state' = St("Initializing"))]_vars

\* C8 witness: a start at time 1 with max_current on its upper bound
C8_Witness ==
    /\ state = St("Initializing")
    /\ ret.op = "start" /\ ret.result = "Ok"
    /\ config.max_current = 150 /\ config.phases = 1
    /\ start_time = 1

\* C9: start() with a configuration that has an invalid field returns
\* InvalidState and leaves the whole manager as it was (state Idle, stored
\* config, safety monitor, start time); a start() with a valid configuration
\* still succeeds afterwards.
C9_InvalidStartRejectedAtomically ==
    [][\A cfg \in Configs, p \in StartPositions :
          (state.tag = "Idle" /\ ~InDomain(cfg) /\ Start(cfg, p, clock))
              => (/\ ret'.result = "InvalidState"
                  /\ Mgr' = Mgr
                  /\ \A c2 \in Configs :
                        InDomain(c2) => start(Mgr', c2, p, clock').result = "Ok")]_vars

\* C9 witness: a rejected start() on an Idle manager
C9_Witness ==
    state.tag = "Idle" /\ ret.op = "start" /\ ret.result = "InvalidState"

\* C10: after a successful start(config, p, t) the stored config and the
\* safety monitor hold home_position = p, the position excursion is measured
\* from p, and the phase timer, the monitor's and the manager's start time
\* are t.
C10_HomeAndTimersCaptured ==
    [][\A cfg \in Configs, p \in StartPositions :
          (ret'.op = "start" /\ ret'.result = "Ok" /\ Start(cfg, p, clock))
              => (/\ config'.home_position = p
                  /\ safety'.some
                  /\ safety'.home_position = p
                  /\ safety'.config.home_position = p
                  /\ safety'.phase_start_time = clock
                  /\ safety'.start_time = clock
                  /\ start_time' = clock
                  /\ \A x \in {p - 11, p - 10, p, p + 10, p + 11, 7, 0} :
                        (check_safety(safety', [ZeroSample EXCEPT
                              !.timestamp = clock, !.position = x]) = "PositionLimit")
                            <=> (Abs(x - p) > cfg.max_position_range))]_vars

\* C10 witness: started at position 20 and time 1 with config.home_position 7
C10_Witness ==
    /\ ret.op = "start" /\ ret.result = "Ok"
    /\ config.home_position = 20 /\ safety.home_position = 20
    /\ safety.phase_start_time = 1 /\ start_time = 1

\* the order in which section 4.2 evaluates the limits
LimitOrder ==
    <<"PositionLimit", "VelocityLimit", "CurrentLimit", "TemperatureLimit",
      "Timeout">>

\* the reference rule: the first violated limit in that order, Ok when none
FirstViolated(saf, sample) ==
    LET V == ViolatedLimits(saf, sample)
    IN  IF V = {} THEN "Ok"
        ELSE LimitOrder[CHOOSE k \in 1..Len(LimitOrder) :
                           /\ LimitOrder[k] \in V
                           /\ \A j \in 1..(k - 1) : LimitOrder[j] \notin V]

\* C11: check_safety(sample) returns the error of the first limit, in the
\* order position, velocity, current, temperature, timeout, that the sample
\* violates, and Ok when it violates none; a value exactly on a threshold
\* passes.
C11_CheckSafetyIsReferenceRule ==
    ret.op = "check_safety" => ret.result = FirstViolated(safety, ret.sample)

\* C11 witness: a sample beyond both the position and the velocity bound was
\* reported as PositionLimit
C11_Witness ==
    /\ ret.op = "check_safety"
    /\ ret.result = "PositionLimit"
    /\ {"PositionLimit", "VelocityLimit"} \subseteq ViolatedLimits(safety, ret.sample)

\* the states in which a calibration phase, or the wait for the first one, is
\* under way
RunningTags == {"Initializing", "InertiaTest", "FrictionTest"}

\* C12: while a phase is under way and the samples stay within the position,
\* velocity, current and temperature limits, an update() leaves
\* Failed(Timeout) exactly when its sample's timestamp minus the phase timer
\* exceeds phase_timeout: on the first such tick and on no earlier one.
C12_TimeoutOnFirstExceedingTick ==
    [][(/\ ret'.op = "update"
        /\ safety.some
        /\ state.tag \in RunningTags
        /\ ViolatedLimits(safety, ret'.sample) \subseteq {"Timeout"})
          => ((state' = Failed("Timeout"))
                <=> (ret'.sample.timestamp - safety.phase_start_time
                        > config.phase_timeout))]_vars

\* C12 witness: the first inertia trial was cut one period after the bound
C12_Witness ==
    /\ state = Failed("Timeout")
    /\ ret.op = "update"
    /\ ret.sample.timestamp - safety.phase_start_time = config.phase_timeout + 1
    /\ inertia_test.some /\ inertia_test.phase = "WaitSettle"
    /\ ~friction_test.some

PhaseTags == {"InertiaTest", "FrictionTest"}

\* C13: every entry into InertiaTest or FrictionTest, from Initializing or
\* from the preceding phase, sets the phase timer to the timestamp of the
\* sample that caused it, and the timer is not touched while the phase lasts;
\* so a tick of a phase whose sample is at most phase_timeout after the
\* phase began never times out, however long ago start() was.
C13_PhaseTimerResetOnEntry ==
    [][/\ (state'.tag \in PhaseTags /\ state'.tag # state.tag)
             => (/\ ret'.op = "update"
                 /\ safety'.some
                 /\ safety'.phase_start_time = ret'.sample.timestamp)
       /\ (state.tag \in PhaseTags /\ state'.tag = state.tag)
             => safety'.phase_start_time = safety.phase_start_time
       /\ (/\ state.tag \in PhaseTags
           /\ ret'.op = "update"
           /\ ret'.sample.timestamp - safety.phase_start_time <= config.phase_timeout)
             => state' # Failed("Timeout")]_vars

\* C13 witness: a friction test still running although more than
\* phase_timeout has passed since start(), the inertia test included
C13_Witness ==
    /\ state.tag = "FrictionTest"
    /\ ret.op = "update"
    /\ results.inertia.some
    /\ safety.phase_start_time > start_time
    /\ ret.sample.timestamp - start_time > config.phase_timeout

\* C14: the undisturbed run with phases = INERTIA|FRICTION, max_current = 5,
\* max_velocity = 4, max_position_range = 1.0 and phase_timeout = 20 ends in
\* Complete, and get_result() reports success with confidence.overall > 0.5.
C14_EndToEndCompletes ==
    is_complete(Mgr)
        => (/\ state.tag = "Complete"
            /\ get_result(Mgr, clock).success
            /\ get_result(Mgr, clock).confidence.overall > 50)

\* C14 as the code has it: that run ends in Failed(Timeout) before the
\* friction test (eight set-points of 1 s ramp and 3 s steady window) has
\* produced a result, the 20 s phase timeout cutting it or the inertia test
\* before it, and get_result() reports success = false and error_code = 5.
C14_EndToEndTimesOut ==
    is_complete(Mgr)
        => (/\ state = Failed("Timeout")
            /\ ~results.friction.some
            /\ get_result(Mgr, clock).success = FALSE
            /\ get_result(Mgr, clock).error_code = 5
            /\ get_result(Mgr, clock).confidence.overall = 85)

\* C14 witness: the run at a period of 0.5 s timed out in the friction
\* test, four of the eight set-points done
C14_Witness ==
    /\ state = Failed("Timeout")
    /\ ret.op = "update" /\ ret.period = 1
    /\ friction_test.some /\ friction_test.velocity_index = 4
    /\ results.inertia.some

\* the phase states in the priority order of section 4.1, bit b of phases
\* selecting the (b+1)-th
PhaseStateOrder ==
    <<"InertiaTest", "FrictionTest", "TorqueConstantTest", "DampingTest",
      "Validation">>

HasBit(n, b) == (n \div (2 ^ b)) % 2 = 1

\* the state of the first phase whose bit is set, Complete when none is
FirstEnabledState(phases) ==
    LET set == {b \in 0..4 : HasBit(phases, b)}
    IN  IF set = {} THEN "Complete"
        ELSE PhaseStateOrder[1 + (CHOOSE b \in set : \A c \in set : b <= c)]

\* C15: the first update() in Initializing with a sample inside all limits
\* enters the state of the first enabled phase in the order inertia, friction,
\* torque-constant, damping, validation, and Complete only when no phase bit
\* is set.
C15_FirstEnabledPhaseEntered ==
    [][(/\ ret'.op = "update"
        /\ state.tag = "Initializing"
        /\ ViolatedLimits(safety, ret'.sample) = {})
          => state'.tag = FirstEnabledState(config.phases)]_vars

\* C16: a manager started with phases = 0 goes to Complete on its first
\* update() with a sample inside all limits; that call returns (0, 0, true);
\* no estimator is ever constructed and no phase state ever entered.
C16_NoPhasesCompletesAtOnce ==
    [][/\ (/\ ret'.op = "update"
           /\ state.tag = "Initializing"
           /\ config.phases = 0
           /\ ViolatedLimits(safety, ret'.sample) = {})
             => (state' = St("Complete") /\ ZeroCommandComplete(ret'))
       /\ (safety'.some /\ config'.phases = 0)
             => (/\ state'.tag \in {"Initializing", "Complete", "Failed"}
                 /\ ~inertia_test'.some
                 /\ ~friction_test'.some)]_vars

\* C16 witness: completed by the first update() after a start with phases = 0
C16_Witness ==
    /\ state = St("Complete")
    /\ config.phases = 0 /\ safety.some
    /\ ret.op = "update" /\ ret.complete
    /\ ret.sample.timestamp = start_time + 1
    /\ ~inertia_test.some /\ ~friction_test.some

StateOrder ==
    <<"Idle", "Initializing", "InertiaTest", "FrictionTest", "TorqueConstantTest",
      "DampingTest", "Validation", "Finalizing">>

Rank(tag) == CHOOSE k \in 1..Len(StateOrder) : StateOrder[k] = tag

TerminalTags == {"Complete", "Failed"}

\* C18: the state never moves backwards in the order Idle, Initializing,
\* InertiaTest, FrictionTest, TorqueConstantTest, DampingTest, Validation,
\* Finalizing; every other transition goes into Complete or Failed; and
\* nothing leaves Complete or Failed.
C18_ForwardOnlyTerminalSinks ==
    [][/\ (state.tag \notin TerminalTags /\ state'.tag \notin TerminalTags)
             => Rank(state'.tag) >= Rank(state.tag)
       /\ state.tag \in TerminalTags => state'.tag = state.tag]_vars

\* C19: whenever the state is Failed(c), c is PositionLimit, VelocityLimit,
\* CurrentLimit, TemperatureLimit, Timeout or UserAbort; InvalidState and
\* Success are never stored in the state, not even by a start() that
\* returns InvalidState.
C19_FailedCodesAreFatalOnes ==
    state.tag = "Failed"
        => state.code \in {"PositionLimit", "VelocityLimit", "CurrentLimit",
                           "TemperatureLimit", "Timeout", "UserAbort"}

\* C19 witness: a start() refused with InvalidState on a manager that had
\* timed out, the stored code still Timeout
C19_Witness ==
    /\ state = Failed("Timeout")
    /\ ret.op = "start" /\ ret.result = "InvalidState"

\* the error codes of the iRPC specification, the k-th numbered k
CodeTable ==
    <<"PositionLimit", "VelocityLimit", "CurrentLimit", "TemperatureLimit",
      "Timeout", "InvalidState", "ConvergenceFailed", "LowConfidence",
      "UserAbort", "HardwareError">>

\* C20: get_result().success is true iff the state is Complete at the time
\* of the call, and get_result().error_code is the number of c when the
\* state is Failed(c) and 0 in every other state.
C20_ResultReflectsState ==
    /\ get_result(Mgr, clock).success = (state.tag = "Complete")
    /\ get_result(Mgr, clock).error_code =
           IF state.tag = "Failed"
           THEN CHOOSE k \in 1..Len(CodeTable) : CodeTable[k] = state.code
           ELSE 0

\* C20 witness: after a stop() the result reports failure with code 9
C20_Witness ==
    /\ state = Failed("UserAbort")
    /\ get_result(Mgr, clock).success = FALSE
    /\ get_result(Mgr, clock).error_code = 9

\* a phase has completed when its estimator has recorded its last trial or
\* set-point
InertiaCompleted == inertia_test.some /\ inertia_test.trial = NUM_TRIALS
FrictionCompleted ==
    friction_test.some /\ friction_test.velocity_index = NUM_VELOCITIES

\* C21: in every state, Failed after an earlier phase completed included,
\* get_result() reports for each phase that completed the values of that
\* phase's result and its confidence, and for a phase that did not the
\* defaults (inertia 0.001, friction Coulomb 0.02, Stribeck 0.01, Stribeck
\* velocity 0.1, viscous 0.001) with confidence 0.0; torque constant and
\* damping are always the defaults 0.15 and 0.0005.
C21_ParametersFromCompletedPhases ==
    LET r == get_result(Mgr, clock)
        J == InertiaTest_get_result(inertia_test)
        F == FrictionTest_get_result(friction_test)
    IN  /\ r.parameters.inertia_J = IF InertiaCompleted THEN J.J ELSE 1
        /\ r.confidence.inertia = IF InertiaCompleted THEN J.confidence ELSE 0
        /\ r.parameters.torque_constant_kt = 150
        /\ r.parameters.damping_b = 5
        /\ r.parameters.friction_coulomb =
               IF FrictionCompleted THEN F.tau_coulomb ELSE 200
        /\ r.parameters.friction_stribeck =
               IF FrictionCompleted THEN F.tau_stribeck ELSE 100
        /\ r.parameters.friction_vstribeck =
               IF FrictionCompleted THEN F.v_stribeck ELSE 1
        /\ r.parameters.friction_viscous =
               IF FrictionCompleted THEN F.b_viscous ELSE 1
        /\ r.confidence.friction = IF FrictionCompleted THEN F.confidence ELSE 0

\* C21 witness: a run that failed in the friction test after the inertia test
\* had completed reports the measured inertia and the friction defaults
C21_Witness ==
    /\ state.tag = "Failed"
    /\ InertiaCompleted /\ friction_test.some /\ ~FrictionCompleted
    /\ get_result(Mgr, clock).parameters.inertia_J = results.inertia.J
    /\ get_result(Mgr, clock).parameters.inertia_J # 1
    /\ get_result(Mgr, clock).parameters.friction_coulomb = 200
    /\ get_result(Mgr, clock).confidence.friction = 0

\* the confidences of the phases that ran: those with a stored result
RanConfidences ==
    {results.inertia.confidence : x \in {y \in {1} : results.inertia.some}}
    \cup {results.friction.confidence : x \in {y \in {1} : results.friction.some}}

\* C22: confidence.overall of get_result() is computed from the confidences
\* of the phases that ran and from nothing else: it lies between the smallest
\* and the largest of them, so it is the confidence of the phase that ran
\* when only one did.
C22_OverallFromPhaseConfidences ==
    RanConfidences # {}
        => (/\ SetMin(RanConfidences) <= get_result(Mgr, clock).confidence.overall
            /\ get_result(Mgr, clock).confidence.overall <= SetMax(RanConfidences))

\* the set-points of the friction sweep, in tenths of max_velocity
SetpointTenths == <<1, 2, 4, 8, -1, -2, -4, -8>>

\* an update() that reaches the friction estimator: the manager is in
\* FrictionTest and the sample passes the safety check
FrictionTick ==
    /\ ret'.op = "update"
    /\ state.tag = "FrictionTest"
    /\ ViolatedLimits(safety, ret'.sample) = {}

\* C23: the friction test commands +0.1, +0.2, +0.4, +0.8, -0.1, -0.2, -0.4,
\* -0.8 times max_velocity in that order, the set-point index only ever
\* advancing by one; finishing a set-point writes that set-point's estimate
\* and no other; done is reported on the tick that finishes the eighth
\* set-point and on no other; get_progress() is the number of finished
\* set-points out of 8.
C23_FrictionSweepInOrder ==
    [][FrictionTick =>
        LET i == friction_test.velocity_index
            j == friction_test'.velocity_index
        IN  /\ i < 8
            /\ j \in {i, i + 1}
            /\ ret'.vel = IF j = 8 THEN 0
                          ELSE (config.max_velocity * SetpointTenths[i + 1]) \div 10
            /\ \A k \in 0..7 :
                  (k # i \/ j = i)
                      => friction_test'.friction_estimates[k]
                             = friction_test.friction_estimates[k]
            /\ ret'.complete <=> j = 8
            /\ FrictionTest_get_progress(friction_test') = <<j, 8>>]_vars

\* C23 witness: the last set-point, -0.8 * max_velocity, being held
C23_Witness ==
    /\ state.tag = "FrictionTest"
    /\ ret.op = "update"
    /\ friction_test.velocity_index = 7 /\ friction_test.phase = "Steady"
    /\ ret.vel = -80

\* an update() of the inertia estimator that ends a trial
TrialEnds ==
    /\ ret'.op = "inertia_update"
    /\ inertia_test'.trial = inertia_test.trial + 1

\* C24: when every sample collected in the Accelerating sub-phase of trial n
\* (commanded current n amperes) has the same acceleration a, |a| > 1.0, the
\* estimate stored for that trial is kt * n / a; 100 samples at 2.0 rad/s^2
\* in the 1 A trial give kt / 2.0.
C24_SteadyAccelerationEstimate ==
    [][TrialEnds =>
        LET buf == inertia_test.measurements
            n == inertia_test.trial + 1
        IN  \A a \in InertiaAccelerations :
               (/\ Abs(a) > 1
                /\ buf # << >>
                /\ \A k \in 1..Len(buf) : buf[k].acceleration = a)
                  => inertia_test'.results[n - 1]
                         = TDiv(inertia_test.kt_nominal * n, a)]_vars

\* C24 witness: the 1 A trial ended with 100 buffered samples at 2.0 rad/s^2
\* and stored 0.075 = 0.15 / 2.0
C24_Witness ==
    /\ ret.op = "inertia_update"
    /\ inertia_test.trial = 1 /\ inertia_test.phase = "Idle"
    /\ inertia_test.kt_nominal = 150
    /\ Len(inertia_test.measurements) = 100
    /\ \A k \in 1..100 : inertia_test.measurements[k].acceleration = 2
    /\ inertia_test.results[0] = 75

\* C25: an update() whose sample violates a safety limit changes nothing in
\* the manager but its state: the monitor (home position, start time, phase
\* timer), both estimators (trial or index, sub-phase, buffer), the stored
\* results, the configuration and the start time are as before.
C25_ViolationTouchesOnlyState ==
    [][(/\ ret'.op = "update"
        /\ safety.some
        /\ ViolatedLimits(safety, ret'.sample) # {})
          => (/\ safety' = safety
              /\ inertia_test' = inertia_test
              /\ friction_test' = friction_test
              /\ results' = results
              /\ config' = config
              /\ start_time' = start_time)]_vars

\* C25 witness: an over-current sample stopped a friction test in its steady
\* window, the buffer holding the samples received before it
C25_Witness ==
    /\ state = Failed("CurrentLimit")
    /\ ret.op = "update" /\ ret.sample.current_iq = 166
    /\ friction_test.some /\ friction_test.phase = "Steady"
    /\ Len(friction_test.measurements) > 0
    /\ ret.sample.timestamp
          > friction_test.measurements[Len(friction_test.measurements)].timestamp

\* C26: at every moment the InertiaTest estimator exists exactly while the
\* state is InertiaTest and the FrictionTest estimator exactly while the
\* state is FrictionTest, so at most one of them exists.
C26_OneEstimatorAtATime ==
    /\ inertia_test.some <=> state.tag = "InertiaTest"
    /\ friction_test.some <=> state.tag = "FrictionTest"

\* the timestamp at which the estimator turned to its current set-point: for
\* the first one the tick on which the manager entered FrictionTest and built
\* the estimator, for the others the tick that finished the one before
PointStart ==
    IF friction_test.velocity_index = 0
        THEN safety.phase_start_time
        ELSE friction_test.start_time

\* C27: at every one of the 8 set-points, the first included and whatever the
\* timestamp at which the friction test was entered, the estimator leaves
\* Ramping only once more than 1 s of sample time has passed since it turned
\* to that set-point, and leaves Steady only once more than 3 s have passed
\* since Steady was entered.
C27_RampAndSteadyAtEveryPoint ==
    [][FrictionTick =>
        /\ (friction_test.phase = "Ramping" /\ friction_test'.phase = "Steady")
              => ret'.sample.timestamp - PointStart > 2
        /\ (/\ friction_test.phase = "Steady"
            /\ friction_test'.velocity_index # friction_test.velocity_index)
              => ret'.sample.timestamp - friction_test.start_time > 6]_vars

\* C28: the inertia test runs five trials, each Idle -> Accelerating ->
\* WaitSettle; trial n returns n amperes on its Idle and Accelerating ticks
\* and 0 on its WaitSettle ticks; Accelerating ends on the first tick more
\* than 1.0 s after the Idle tick, WaitSettle on the first tick more than
\* 0.5 s after Accelerating ended; get_progress() is the number of completed
\* trials out of 5; done is reported exactly on the tick that ends the fifth
\* trial's settle.
C28_FiveTrialsInOrder ==
    [][ret'.op = "inertia_update" =>
        LET p == inertia_test.phase
            q == inertia_test'.phase
            n == inertia_test.trial + 1
            t == ret'.sample.timestamp
            ended == inertia_test'.trial = inertia_test.trial + 1
        IN  /\ n <= 5
            /\ p = "Idle"
                  => (/\ q = "Accelerating"
                      /\ inertia_test'.start_time = t
                      /\ ret'.i_q = 10 * n /\ ~ended)
            /\ p = "Accelerating"
                  => (/\ q = (IF t - inertia_test.start_time > 2
                                 THEN "WaitSettle" ELSE "Accelerating")
                      /\ inertia_test'.start_time
                            = (IF q = "WaitSettle" THEN t ELSE inertia_test.start_time)
                      /\ ret'.i_q = 10 * n /\ ~ended)
            /\ p = "WaitSettle"
                  => (/\ ended <=> t - inertia_test.start_time > 1
                      /\ q = (IF ended /\ n < 5 THEN "Idle" ELSE "WaitSettle")
                      /\ ret'.i_q = 0)
            /\ ended \/ inertia_test'.trial = inertia_test.trial
            /\ ret'.complete <=> (ended /\ n = 5)
            /\ InertiaTest_get_progress(inertia_test') = <<inertia_test'.trial, 5>>]_vars

\* C28 witness: the tick that ended the settle of the fifth trial
C28_Witness ==
    /\ ret.op = "inertia_update"
    /\ ret.complete /\ ret.i_q = 0
    /\ inertia_test.trial = 5 /\ inertia_test.phase = "WaitSettle"

\* C29: a sample with |acceleration| > 1.0 received during Accelerating
\* enters the trial's estimate as long as fewer than 100 such samples have
\* been kept; samples with |acceleration| <= 1.0 take no buffer slot, so they
\* never displace a later informative sample.
C29_WeakSamplesTakeNoSlot ==
    [][(/\ ret'.op = "inertia_update"
        /\ inertia_test.phase = "Accelerating"
        /\ Abs(ret'.sample.acceleration) > 1
        /\ CountAccel(inertia_test.measurements) < 100)
          => CountAccel(inertia_test'.measurements)
                 = CountAccel(inertia_test.measurements) + 1]_vars

\* C30: a trial none of whose collected samples has |acceleration| > 1.0
\* stores the estimate 0 and still counts as a completed trial; the final J
\* is the mean of all five stored estimates, zeros included, and the variance
\* their population variance (the sum of squared deviations divided by 5).
C30_EmptyTrialCountsAsZero ==
    [][ret'.op = "inertia_update" =>
        /\ (/\ inertia_test.phase = "WaitSettle"
            /\ ret'.sample.timestamp - inertia_test.start_time > 1
            /\ \A k \in 1..Len(inertia_test.measurements) :
                  Abs(inertia_test.measurements[k].acceleration) <= 1)
              => (/\ inertia_test'.trial = inertia_test.trial + 1
                  /\ inertia_test'.results[inertia_test.trial] = 0)
        /\ inertia_test'.trial = 5
              => LET r == inertia_test'.results
                     S == r[0] + r[1] + r[2] + r[3] + r[4]
                     \* 25 * (r[i] - S/5)^2 = (5*r[i] - S)^2
                     Q == (5*r[0] - S) * (5*r[0] - S) + (5*r[1] - S) * (5*r[1] - S)
                          + (5*r[2] - S) * (5*r[2] - S) + (5*r[3] - S) * (5*r[3] - S)
                          + (5*r[4] - S) * (5*r[4] - S)
                 IN  /\ InertiaTest_get_result(inertia_test').J = TDiv(S, 5)
                     /\ InertiaTest_get_result(inertia_test').variance
                            = TDiv(Q, 125)]_vars

\* C30 witness: a finished test whose third trial saw only weak samples
C30_Witness ==
    /\ ret.op = "inertia_update" /\ ret.complete
    /\ inertia_test.trial = 5
    /\ inertia_test.kt_nominal = 150
    /\ inertia_test.results = [i \in 0..4 |-> IF i = 2 THEN 0 ELSE 75 * (i + 1)]
    /\ InertiaTest_get_result(inertia_test).J = 180

\* the confidence tier of five estimates r: the standard deviation compared
\* with 5%, 10% and 20% of the magnitude of the mean.  With S the sum and
\* Q the sum of the (5*r[i] - S)^2: std < c*|mean| iff Q < 5*c^2*S^2.
SpreadTier(r) ==
    LET S == r[0] + r[1] + r[2] + r[3] + r[4]
        Q == (5*r[0] - S) * (5*r[0] - S) + (5*r[1] - S) * (5*r[1] - S)
             + (5*r[2] - S) * (5*r[2] - S) + (5*r[3] - S) * (5*r[3] - S)
             + (5*r[4] - S) * (5*r[4] - S)
    IN  IF 80 * Q < S * S THEN 100
        ELSE IF 20 * Q < S * S THEN 90
        ELSE IF 5 * Q < S * S THEN 70
        ELSE 50

\* C31: for every five per-trial estimates, negative and all-zero ones
\* included, get_result() reports confidence 1.0 only when their standard
\* deviation is below 5% of the magnitude of their mean, 0.9 only when below
\* 10%, 0.7 only when below 20%, and 0.5 otherwise.
C31_ConfidenceFromRelativeSpread ==
    inertia_test.trial = 5
        => InertiaTest_get_result(inertia_test).confidence
               = SpreadTier(inertia_test.results)

\* the smallest magnitude among the estimates of a set
MinMagnitude(S) == SetMin({Abs(x) : x \in S})

\* C32: for every eight per-point estimates, get_result() returns tau_coulomb
\* equal to the average of the smallest-magnitude estimate among the
\* positive-velocity points and the smallest-magnitude estimate among the
\* negative-velocity points, b_viscous equal to (largest positive-side
\* estimate - tau_coulomb) / (0.8 * max_velocity), tau_stribeck equal to
\* 0.3 * tau_coulomb and v_stribeck equal to 0.1.
C32_FrictionFit ==
    results.friction.some =>
        LET e == friction_test.friction_estimates
            v == friction_test.velocity_setpoints
            pos == {e[i] : i \in {k \in 0..7 : v[k] > 0}}
            neg == {e[i] : i \in {k \in 0..7 : v[k] < 0}}
            coulomb == TDiv(MinMagnitude(pos) + MinMagnitude(neg), 2)
        IN  /\ results.friction.tau_coulomb = coulomb
            /\ results.friction.b_viscous
                  = TDiv(SetMax(pos) - coulomb, (8 * config.max_velocity) \div 10)
            /\ results.friction.tau_stribeck = TDiv(3 * coulomb, 10)
            /\ results.friction.v_stribeck = 1

\* C33: under any sequence of push and clear on a MeasurementBuffer<N>,
\* 0 <= len() <= N always; push on a buffer with len() < N appends the sample
\* at the end and returns Ok; push on a full buffer returns Err and leaves the
\* count and every stored sample unchanged; clear sets len() to 0; samples()
\* is exactly the pushed samples in insertion order.
C33_BufferIsBoundedAppendOnly ==
    /\ [](/\ 0 <= MeasurementBuffer_len(buffer)
          /\ MeasurementBuffer_len(buffer) <= BufferCapacity
          /\ MeasurementBuffer_samples(buffer) = accepted)
    /\ [][/\ (ret'.op = "push" /\ MeasurementBuffer_len(buffer) < BufferCapacity)
                => (/\ ret'.result = "Ok"
                    /\ MeasurementBuffer_samples(buffer')
                          = Append(MeasurementBuffer_samples(buffer), ret'.sample))
          /\ (ret'.op = "push" /\ MeasurementBuffer_len(buffer) = BufferCapacity)
                => (/\ ret'.result = "Err"
                    /\ buffer'.count = buffer.count
                    /\ buffer'.samples = buffer.samples)
          /\ ret'.op = "clear" => MeasurementBuffer_len(buffer') = 0]_vars

\* C33 witness: a push was refused by a full buffer holding three different
\* samples, one of them equal to the initial content
C33_Witness ==
    /\ ret.op = "push" /\ ret.result = "Err"
    /\ ret.sample.acceleration = 2
    /\ MeasurementBuffer_len(buffer) = BufferCapacity
    /\ accepted[1].acceleration = 1 /\ accepted[2].acceleration = 0
    /\ accepted[BufferCapacity].acceleration = 1

\* an update() that reaches the inertia estimator: the manager is in
\* InertiaTest and the sample passes the safety check
InertiaTick ==
    /\ ret'.op = "update"
    /\ state.tag = "InertiaTest"
    /\ ViolatedLimits(safety, ret'.sample) = {}

\* every sample of a buffer was received after time t
ReceivedAfter(buf, t) == \A k \in 1..Len(buf) : buf[k].timestamp > t

\* C34: an estimator enters a collecting sub-phase (Accelerating of an
\* inertia trial, Steady of a friction set-point) with an empty measurement
\* buffer; the buffer then grows only by the samples received in that
\* sub-phase, and the estimate stored for the trial or set-point is computed
\* from that buffer, never from samples of an earlier trial or set-point.
C34_CollectingStartsEmpty ==
    [][/\ InertiaTick =>
            LET old == inertia_test.measurements
                new == inertia_test'.measurements
            IN  /\ inertia_test.phase = "Idle"
                      => (inertia_test'.phase = "Accelerating" /\ new = << >>)
                /\ inertia_test.phase = "Accelerating"
                      => (/\ new \in {old, Append(old, ret'.sample)}
                          /\ ReceivedAfter(new, inertia_test.start_time))
                /\ inertia_test.phase = "WaitSettle"
                      => (/\ new = old
                          /\ inertia_test'.trial # inertia_test.trial
                                => inertia_test'.results[inertia_test.trial]
                                       = estimate_inertia_for_trial(inertia_test))
       /\ FrictionTick =>
            LET old == friction_test.measurements
                new == friction_test'.measurements
            IN  /\ friction_test.phase = "Ramping"
                      => (friction_test'.phase = "Steady" => new = << >>)
                /\ friction_test.phase = "Steady"
                      => (/\ new \in {old, Append(old, ret'.sample)}
                          /\ ReceivedAfter(new, friction_test.start_time)
                          /\ friction_test'.velocity_index
                                    # friction_test.velocity_index
                                => friction_test'.friction_estimates
                                          [friction_test.velocity_index]
                                       = TDiv(friction_test.kt_nominal * SumIq(new),
                                              Len(new)))]_vars

\* C34 witness: the second friction set-point has just entered Steady, its
\* buffer empty although the first set-point had collected samples
C34_Witness ==
    /\ state.tag = "FrictionTest" /\ ret.op = "update"
    /\ friction_test.velocity_index = 1 /\ friction_test.phase = "Steady"
    /\ friction_test.start_time = ret.sample.timestamp
    /\ friction_test.measurements = << >>
    /\ friction_test.friction_estimates[0] # 0

\* fractions <<num, den>> with positive denominators
FracEq(f, n, d) == f[1] * d = n * f[2]
FracLeq(f, g) == f[1] * g[2] <= g[1] * f[2]

\* C35: in every reachable state get_status() reports a progress in [0, 1]:
\* with the tag InertiaTest or FrictionTest while that phase is active, the
\* estimator's trials/5 or points/8, below 1, and a time_remaining of 15 s or
\* 30 s times (1 - progress); with the tag Complete or Failed in the terminal
\* states, progress 1; with the tag Idle otherwise, progress 0; and within one
\* phase the reported progress never decreases.
C35_StatusProgress ==
    /\ [](LET s == get_status(Mgr, clock)
          IN  /\ s.progress[2] > 0
              /\ 0 <= s.progress[1] /\ s.progress[1] <= s.progress[2]
              /\ state.tag = "InertiaTest"
                    => (/\ s.phase = "InertiaTest"
                        /\ FracEq(s.progress, inertia_test.trial, 5)
                        /\ s.progress[1] < s.progress[2]
                        /\ FracEq(s.time_remaining,
                                  30 * (5 - inertia_test.trial), 5))
              /\ state.tag = "FrictionTest"
                    => (/\ s.phase = "FrictionTest"
                        /\ FracEq(s.progress, friction_test.velocity_index, 8)
                        /\ s.progress[1] < s.progress[2]
                        /\ FracEq(s.time_remaining,
                                  60 * (8 - friction_test.velocity_index), 8))
              /\ state.tag \in {"Complete", "Failed"}
                    => (/\ s.phase = state.tag
                        /\ FracEq(s.progress, 1, 1)
                        /\ FracEq(s.time_remaining, 0, 1))
              /\ state.tag \notin {"InertiaTest", "FrictionTest", "Complete",
                                   "Failed"}
                    => (/\ s.phase = "Idle"
                        /\ FracEq(s.progress, 0, 1)
                        /\ FracEq(s.time_remaining, 0, 1)))
    /\ [][(state.tag \in {"InertiaTest", "FrictionTest"} /\ state'.tag = state.tag)
             => FracLeq(get_status(Mgr, clock).progress,
                        get_status(Mgr', clock').progress)]_vars

\* C35 witness: a friction test with three set-points finished reports
\* progress 3/8 and 18.75 s remaining
C35_Witness ==
    /\ state.tag = "FrictionTest" /\ ret.op = "update"
    /\ friction_test.velocity_index = 3
    /\ get_status(Mgr, clock).phase = "FrictionTest"
    /\ get_status(Mgr, clock).progress = <<3, 8>>
    /\ get_status(Mgr, clock).time_remaining = <<300, 8>>

\* C36: through the manager no estimator is updated after it has reported
\* done: whenever the state is InertiaTest the estimator's trial index is
\* below 5, whenever it is FrictionTest the velocity_index is below 8, and an
\* estimator changes only on a tick of its own phase, so results[trial] and
\* velocity_setpoints[velocity_index] are always in range.
C36_NoUpdateAfterDone ==
    /\ [](/\ state.tag = "InertiaTest"
                => (/\ inertia_test.some
                    /\ inertia_test.trial \in DOMAIN inertia_test.results
                    /\ inertia_test.trial < 5)
          /\ state.tag = "FrictionTest"
                => (/\ friction_test.some
                    /\ friction_test.velocity_index
                          \in DOMAIN friction_test.velocity_setpoints
                    /\ friction_test.velocity_index < 8))
    /\ [][/\ (inertia_test.some /\ inertia_test' # inertia_test)
                => (InertiaTick /\ inertia_test.trial < 5)
          /\ (friction_test.some /\ friction_test' # friction_test)
                => (FrictionTick /\ friction_test.velocity_index < 8)]_vars

\* C36 witness: the tick on which the inertia estimator reported done took
\* the manager to FrictionTest, and the friction test has since started
C36_Witness ==
    /\ state.tag = "FrictionTest" /\ ret.op = "update"
    /\ inertia_test.some /\ inertia_test.trial = 5
    /\ friction_test.some /\ friction_test.phase = "Steady"

\* C37: the friction estimator is built with the nominal torque constant
\* kt = 0.15, the one that seeds the inertia estimator, whether FrictionTest
\* is entered from Initializing or after a completed InertiaTest, so every
\* friction estimate is 0.15 * mean(i_q) whatever the inertia phase measured.
C37_FrictionUsesNominalKt ==
    /\ inertia_test.some => inertia_test.kt_nominal = 150
    /\ friction_test.some
          => (/\ friction_test.kt_nominal = 150
              /\ inertia_test.some
                    => friction_test.kt_nominal = inertia_test.kt_nominal)

\* C38: for every update() call, the returned is_complete flag is true
\* exactly when the state after the call is Complete or Failed, that is, it
\* equals is_complete() read right after; when it is true both returned
\* commands are 0; and at most one of the two commands is non-zero: a current
\* only in InertiaTest, a velocity only in FrictionTest.
C38_CompleteFlagMatchesState ==
    ret.op = "update" =>
        /\ ret.complete <=> state.tag \in {"Complete", "Failed"}
        /\ ret.complete = is_complete(Mgr)
        /\ ret.complete => (ret.i_q = 0 /\ ret.vel = 0)
        /\ ret.i_q = 0 \/ ret.vel = 0
        /\ ret.i_q # 0 => state.tag = "InertiaTest"
        /\ ret.vel # 0 => state.tag = "FrictionTest"

\* C38 witness: the update() that finished the eighth friction set-point
\* returned (0, 0, true) and left the state Complete
C38_Witness ==
    /\ ret.op = "update" /\ ret.complete
    /\ ret.i_q = 0 /\ ret.vel = 0
    /\ state.tag = "Complete"
    /\ results.friction.some /\ friction_test.velocity_index = 8

\* C39: results.inertia is present exactly when the inertia estimator has
\* reported done in this run and results.friction exactly when the friction
\* estimator has; in Complete every enabled phase among inertia and friction
\* has a stored result; a phase cut short by a safety failure or by stop()
\* leaves no result.
C39_ResultsMatchFinishedPhases ==
    /\ results.inertia.some <=> (inertia_test.some /\ inertia_test.trial = 5)
    /\ results.friction.some
          <=> (friction_test.some /\ friction_test.velocity_index = 8)
    /\ state.tag = "Complete"
          => (/\ HasBit(config.phases, 0) => results.inertia.some
              /\ HasBit(config.phases, 1) => results.friction.some)
    /\ (state.tag = "Failed" /\ inertia_test.some /\ inertia_test.trial < 5)
          => ~results.inertia.some
    /\ (state.tag = "Failed" /\ friction_test.some
            /\ friction_test.velocity_index < 8)
          => ~results.friction.some

\* C39 witness: stop() cut the friction test short after two set-points; the
\* inertia result of the same run is stored, a friction result is not
C39_Witness ==
    /\ state = Failed("UserAbort") /\ ret.op = "stop"
    /\ results.inertia.some /\ inertia_test.trial = 5
    /\ friction_test.some /\ friction_test.velocity_index = 2
    /\ ~results.friction.some

\* C40: after a successful start(), when update() keeps being called with
\* samples of ever later timestamps, the manager eventually reaches Complete
\* or Failed: no run stays for ever in Initializing, InertiaTest or
\* FrictionTest, whatever the sample values are.
C40_RunEventuallyEnds ==
    (state.tag \in {"Initializing", "InertiaTest", "FrictionTest"})
        ~> (state.tag \in {"Complete", "Failed"})

\* C40 witness: a run polled with samples inside every value limit was ended
\* by the phase timeout in the middle of the friction sweep
C40_Witness ==
    /\ state = Failed("Timeout") /\ ret.op = "update"
    /\ inertia_test.some /\ inertia_test.trial = 5
    /\ friction_test.some /\ friction_test.velocity_index = 4

====
